---- MODULE Spec2Model ----
(***************************************************************************)
(* A state-machine model of text2api: the text analyzer, the orchestrator  *)
(* facade, the Ollama client's requirement analysis, the dict-pipeline     *)
(* generators and the MCP enhancement pass.                                *)
(*                                                                         *)
(* Each component has its own variables and its own specification; a       *)
(* component's specification leaves the other components' variables at     *)
(* their initial values.                                                   *)
(***************************************************************************)
EXTENDS Integers, Sequences, FiniteSets, TLC

VARIABLES
    an_text,      \* analyzer: the text passed to the last analyze_text call
    an_llm,       \* analyzer: what the LLM call of that analyze_text did
    an_result,    \* analyzer: how that analyze_text ended
    orch,         \* APIGenerator: the last generate call (inputs and result)
    oc,           \* OllamaClient: the last analyze_api_requirements call
    gen,          \* generator object: kind, project_name, api_spec, handed spec
    fs,           \* file system under output_dir: the directories and files there
    gen_last,     \* the last call on the generator and how it ended
    mcp,          \* MCPIntegration object: enabled, capabilities
    mcp_spec,     \* the ApiSpec object the caller hands to enhance_spec
    mcp_last,     \* the last enhance_spec call: input snapshot, returned object
    cli,          \* command line: the last command run and how its process ended
    batch,        \* FileManager.batch_process_files: the call in progress
    disk,         \* FileManager: the files on disk, path to content and mtime
    fm_last,      \* FileManager: the last call and what it returned
    stream,       \* OllamaClient.generate_stream: the lines sent, read and yielded
    grpc,         \* generated gRPC server: self.db, the calls in progress and made
    compose,      \* DockerManager.generate_docker_compose: the last call
    pat,          \* TextAnalyzer._analyze_patterns: the last direct call
    crud          \* TextAnalyzer._generate_crud_endpoints: the last direct call

analyzerVars == <<an_text, an_llm, an_result>>
orchVars     == <<orch>>
ollamaVars   == <<oc>>
genVars      == <<gen, fs, gen_last>>
mcpVars      == <<mcp, mcp_spec, mcp_last>>
cliVars      == <<cli>>
batchVars    == <<batch>>
fmVars       == <<disk, fm_last>>
streamVars   == <<stream>>
grpcVars     == <<grpc>>
composeVars  == <<compose>>
pureVars     == <<pat, crud>>
vars == <<an_text, an_llm, an_result, orch, oc, gen, fs, gen_last,
          mcp, mcp_spec, mcp_last, cli, batch, disk, fm_last,
          stream, grpc, compose, pat, crud>>

(***************************************************************************)
(* Bounds                                                                  *)
(***************************************************************************)
MaxWords == 3        \* longest analysed text, in tokens
MaxDescLen == 5      \* longest description handed to APIGenerator.generate, in characters
MaxRespLen == 4      \* longest LLM response text, in tokens
MaxModels == 2       \* longest models list of a spec handed to a generator
MaxEndpoints == 2    \* longest endpoint list of an ApiSpec handed to the MCP pass
MaxRuns == 2         \* most commands run one after another on one disk
MaxFiles == 3        \* longest file list handed to batch_process_files
MaxConcurrent == 2   \* largest max_concurrent handed to batch_process_files
MaxCalls == 4        \* most calls made on one gRPC server
MaxWorkers == 2      \* worker threads of the gRPC server that serve calls at once
MaxLines == 3        \* most lines the server sends on one stream
MaxContentLen == 3   \* longest text handed to write_file or held by a JSON value, in characters

(***************************************************************************)
(* Generic helpers                                                         *)
(***************************************************************************)
Range(s) == { s[i] : i \in 1..Len(s) }

SeqsUpTo(S, n) == UNION { [1..k -> S] : k \in 0..n }

Take(s, n) == SubSeq(s, 1, IF Len(s) < n THEN Len(s) ELSE n)

\* index of the first element of s satisfying "= x", 0 when there is none
FirstIndex(s, x) ==
    IF \E i \in 1..Len(s) : s[i] = x
    THEN CHOOSE i \in 1..Len(s) : s[i] = x /\ \A j \in 1..(i-1) : s[j] # x
    ELSE 0

\* index of the last element of s equal to x, 0 when there is none
LastIndex(s, x) ==
    IF \E i \in 1..Len(s) : s[i] = x
    THEN CHOOSE i \in 1..Len(s) : s[i] = x /\ \A j \in (i+1)..Len(s) : s[j] # x
    ELSE 0

\* an optional dict entry: present or not, with its value
Some(v) == [present |-> TRUE, v |-> v]
None(dummy) == [present |-> FALSE, v |-> dummy]
Get(o, default) == IF o.present THEN o.v ELSE default

(***************************************************************************)
(* TextAnalyzer (text2api/core/analyzer.py)                                *)
(*                                                                         *)
(* A text is a sequence of lower-case tokens.  "." is a sentence-ending    *)
(* period; every other token is a whitespace-separated word.               *)
(***************************************************************************)
Vocab == {"api", "graphql", "users", "create", "v2", "."}

\* str.isalpha() of a word
IsAlpha(w) == w \in {"api", "graphql", "users", "create"}

\* the stop words of _extract_name_from_text
StopWords == {"api", "for", "to", "the", "a", "an", "create", "build", "make"}

\* ApiType: the values the enum accepts
ApiTypeValues == {"rest", "graphql", "grpc", "websocket", "cli", "sse", "json_rpc"}

\* HttpMethod: the values the enum accepts
HttpMethodValues == {"GET", "POST", "PUT", "DELETE", "PATCH", "HEAD", "OPTIONS"}

\* patterns["api_types"] in dict order; re.search of a type's pattern in a
\* word: the words that contain one of its alternatives
ApiTypeOrder == <<"rest", "graphql", "grpc", "websocket", "cli">>

ApiTypeMatch(api_name, w) ==
    CASE api_name = "rest"      -> w \in {"api", "http"}
      [] api_name = "graphql"   -> w \in {"graphql"}
      [] api_name = "grpc"      -> w \in {"grpc"}
      [] api_name = "websocket" -> w \in {"websocket", "real-time"}
      [] api_name = "cli"       -> w \in {"command"}

\* patterns["crud_operations"], by position
CrudNames == <<"create", "read", "update", "delete">>

CrudMatch(i, w) ==
    CASE i = 1 -> w \in {"create"}
      [] i = 2 -> FALSE
      [] i = 3 -> FALSE
      [] i = 4 -> FALSE

\* patterns["data_entities"]: the entity a word contains ("" for none)
EntityIn(w) == IF w = "users" THEN "user" ELSE ""

\* patterns["authentication"] and patterns["database"]: no word of Vocab matches
AuthMatch(w) == FALSE
DatabaseMatch(w) == FALSE

\* a word: its stem and the number of "s" characters that end it
Word(stem, s) == [stem |-> stem, s |-> s]

\* str.rstrip("s")
RStripS(w) == [w EXCEPT !.s = 0]

\* the characters of a word: "user" with two "s" is "userss"
Render(w) ==
    CASE w.s = 0 -> w.stem
      [] w.s = 1 -> w.stem \o "s"
      [] OTHER   -> w.stem \o "ss"

\* _extract_name_from_text: the words of the name, joined by "_" in the code
GeneratedApiName == <<"generated_api">>

\* _extract_name_from_text without its "generated_api" default
_extract_name_from_text_NoDefault(text) ==
    LET dot == FirstIndex(text, ".")
        first_sentence == IF dot = 0 THEN text ELSE SubSeq(text, 1, dot - 1)
    IN  Take(SelectSeq(first_sentence, LAMBDA w : w \notin StopWords /\ IsAlpha(w)), 3)

_extract_name_from_text(text) ==
    LET dot == FirstIndex(text, ".")
        first_sentence == IF dot = 0 THEN text ELSE SubSeq(text, 1, dot - 1)
        name_words == SelectSeq(first_sentence,
                                LAMBDA w : w \notin StopWords /\ IsAlpha(w))
    IN  IF name_words # <<>> THEN Take(name_words, 3) ELSE GeneratedApiName

\* _fallback_analysis: the dict _analyze_with_ollama returns when the call fails
_fallback_analysis(text) ==
    [ api_type  |-> Some("rest"),
      name      |-> Some(_extract_name_from_text(text)),
      framework |-> Some("fastapi"),
      entities  |-> Some([isList |-> TRUE, items |-> <<Word("item", 0)>>]),
      endpoints |-> Some(<<>>) ]

\* What the LLM call can do: generate raises, returns text that is not JSON, or
\* returns JSON.  A JSON document that is an object is a dict with any of the
\* keys present; a value may have the wrong shape for its key.
LlmEndpoint(method, params_ok) ==
    [path |-> "/llm", method |-> method, name |-> "llm_endpoint",
     params_ok |-> params_ok]

LlmEntities ==
    { [isList |-> TRUE, items |-> <<>>],
      [isList |-> TRUE, items |-> <<Word("user", 1)>>],
      [isList |-> FALSE, items |-> <<>>] }          \* null, a string, a number

LlmDicts ==
    [ api_type  : {None(""), Some("rest"), Some("grpc"), Some("soap")},
      name      : {None(<<>>), Some(<<"shop">>), Some(<<>>)},
      framework : {None("")},
      entities  : {None([isList |-> TRUE, items |-> <<>>])}
                    \cup { Some(e) : e \in LlmEntities },
      endpoints : {None(<<>>), Some(<<>>),
                   Some(<<LlmEndpoint("GET", TRUE)>>),
                   Some(<<LlmEndpoint("FETCH", TRUE)>>),
                   Some(<<LlmEndpoint("GET", FALSE)>>)} ]

EmptyDict ==
    [ api_type |-> None(""), name |-> None(<<>>), framework |-> None(""),
      entities |-> None([isList |-> TRUE, items |-> <<>>]),
      endpoints |-> None(<<>>) ]

LlmOutcomes ==
    { [kind |-> "raises", isDict |-> FALSE, d |-> EmptyDict],
      [kind |-> "not_json", isDict |-> FALSE, d |-> EmptyDict],
      [kind |-> "json", isDict |-> FALSE, d |-> EmptyDict] }
    \cup { [kind |-> "json", isDict |-> TRUE, d |-> d] : d \in LlmDicts }

\* the LLM call failed: generate raised, or json.loads of its response raised
LlmFailed(o) == o.kind \in {"raises", "not_json"}

\* _analyze_with_ollama: the parsed response, or the fallback on any exception
_analyze_with_ollama(text, o) ==
    IF LlmFailed(o)
    THEN [isDict |-> TRUE, d |-> _fallback_analysis(text)]
    ELSE [isDict |-> o.isDict, d |-> o.d]

\* _analyze_patterns
PatternApiType(text) ==
    LET hit(i) == \E k \in 1..Len(text) : ApiTypeMatch(ApiTypeOrder[i], text[k])
    IN  IF \E i \in 1..Len(ApiTypeOrder) : hit(i)
        THEN ApiTypeOrder[CHOOSE i \in 1..Len(ApiTypeOrder) :
                              hit(i) /\ \A j \in 1..(i-1) : ~hit(j)]
        ELSE "rest"

_analyze_patterns(text) ==
    [ api_type |-> PatternApiType(text),
      crud_operations |->
          SelectSeq(CrudNames, LAMBDA c :
              \E i \in 1..4 : CrudNames[i] = c
                              /\ \E k \in 1..Len(text) : CrudMatch(i, text[k])),
      entities |-> { Word(EntityIn(text[k]), 0) :
                        k \in { j \in 1..Len(text) : EntityIn(text[j]) # "" } },
      auth_required |-> \E k \in 1..Len(text) : AuthMatch(text[k]),
      database_required |-> \E k \in 1..Len(text) : DatabaseMatch(text[k]) ]

\* an order of a set's elements (the iteration order of a Python set)
RECURSIVE SetToSeq(_)
SetToSeq(S) ==
    IF S = {} THEN <<>>
    ELSE LET x == CHOOSE x \in S : TRUE IN <<x>> \o SetToSeq(S \ {x})

\* _generate_crud_endpoints: the endpoints of one entity, then of the next
CrudEndpointsOf(entity, crud_ops) ==
    LET e  == Render(entity)
        es == Render(RStripS(entity))
        has(op) == op \in Range(crud_ops)
    IN  (IF has("create")
         THEN <<[path |-> "/" \o e, method |-> "POST", name |-> "create_" \o es]>>
         ELSE <<>>)
        \o (IF has("read")
            THEN <<[path |-> "/" \o e, method |-> "GET", name |-> "list_" \o e],
                   [path |-> "/" \o e \o "/{id}", method |-> "GET",
                    name |-> "get_" \o es]>>
            ELSE <<>>)
        \o (IF has("update")
            THEN <<[path |-> "/" \o e \o "/{id}", method |-> "PUT",
                    name |-> "update_" \o es]>>
            ELSE <<>>)
        \o (IF has("delete")
            THEN <<[path |-> "/" \o e \o "/{id}", method |-> "DELETE",
                    name |-> "delete_" \o es]>>
            ELSE <<>>)

RECURSIVE _generate_crud_endpoints(_, _)
_generate_crud_endpoints(entities, crud_ops) ==
    IF entities = <<>> THEN <<>>
    ELSE CrudEndpointsOf(Head(entities), crud_ops)
         \o _generate_crud_endpoints(Tail(entities), crud_ops)

\* _create_endpoints raises when an LLM endpoint has a method HttpMethod rejects
\* (ValueError) or a parameter without "name" or "type" (KeyError)
CreateEndpointsRaises(ollama_endpoints) ==
    \E i \in 1..Len(ollama_endpoints) :
        \/ ollama_endpoints[i].method \notin HttpMethodValues
        \/ ~ollama_endpoints[i].params_ok

_create_endpoints(ollama_endpoints, entities, crud_ops) ==
    LET endpoints == [i \in 1..Len(ollama_endpoints) |->
                        [path |-> ollama_endpoints[i].path,
                         method |-> ollama_endpoints[i].method,
                         name |-> ollama_endpoints[i].name]]
    IN  IF endpoints = <<>> /\ entities # <<>>
        THEN _generate_crud_endpoints(entities, crud_ops)
        ELSE endpoints

\* _create_models: one model per element of set(pattern + ollama entities),
\* named by the capitalized singular
_create_models(pattern_entities, ollama_entities) ==
    LET all_entities == SetToSeq(Range(pattern_entities) \cup Range(ollama_entities))
    IN  [i \in 1..Len(all_entities) |-> [name |-> Render(RStripS(all_entities[i]))]]

\* _create_api_spec: the exception it raises ("" when it returns)
CreateApiSpecRaises(a, pattern) ==
    IF ~a.isDict THEN "AttributeError"                \* ollama_analysis.get
    ELSE IF Get(a.d.api_type, pattern.api_type) \notin ApiTypeValues
         THEN "ValueError"                            \* ApiType(...)
    ELSE IF CreateEndpointsRaises(Get(a.d.endpoints, <<>>))
         THEN "EndpointError"                         \* HttpMethod(...), p["name"]
    ELSE IF ~Get(a.d.entities, [isList |-> TRUE, items |-> <<>>]).isList
         THEN "TypeError"                             \* list + non-list
    ELSE ""

FrameworkOf(api_type, a) ==
    CASE api_type = "rest"      -> Get(a.d.framework, "fastapi")
      [] api_type = "graphql"   -> "graphene"
      [] api_type = "grpc"      -> "grpc"
      [] api_type = "websocket" -> "websockets"
      [] api_type = "cli"       -> "click"
      [] OTHER                  -> "fastapi"

_create_api_spec(text, a, pattern) ==
    LET api_type == Get(a.d.api_type, pattern.api_type)
        pattern_entities == SetToSeq(pattern.entities)
    IN  [ name      |-> Get(a.d.name, _extract_name_from_text(text)),
          api_type  |-> api_type,
          base_path |-> "/api/v1",
          endpoints |-> _create_endpoints(Get(a.d.endpoints, <<>>),
                                          pattern_entities,
                                          pattern.crud_operations),
          models    |-> _create_models(pattern_entities,
                            Get(a.d.entities,
                                [isList |-> TRUE, items |-> <<>>]).items),
          auth_type |-> IF pattern.auth_required THEN "jwt" ELSE "None",
          database_required |-> pattern.database_required,
          framework |-> FrameworkOf(api_type, a) ]

NoApiSpec ==
    [ name |-> <<>>, api_type |-> "", base_path |-> "", endpoints |-> <<>>,
      models |-> <<>>, auth_type |-> "None", database_required |-> FALSE,
      framework |-> "" ]

\* analyze_text: how the call ends for a text and an outcome of its LLM call
analyze_text(text, o) ==
    LET a == _analyze_with_ollama(text, o)
        pattern == _analyze_patterns(text)
        exc == CreateApiSpecRaises(a, pattern)
    IN  IF exc # ""
        THEN [outcome |-> "raised", exception |-> exc, spec |-> NoApiSpec]
        ELSE [outcome |-> "returned", exception |-> "",
              spec |-> _create_api_spec(text, a, pattern)]

Texts == SeqsUpTo(Vocab, MaxWords)

\* before any analyze_text call
NoLlmCall == [kind |-> "none", isDict |-> FALSE, d |-> EmptyDict]
NotAnalyzed == [outcome |-> "none", exception |-> "", spec |-> NoApiSpec]

\* one analyze_text call; the analyzer keeps nothing from one call to the next,
\* so a behaviour has one call
AnalyzeText ==
    /\ an_result.outcome = "none"
    /\ \E text \in Texts, o \in LlmOutcomes :
        /\ an_text' = text
        /\ an_llm' = o
        /\ an_result' = analyze_text(text, o)

\* _analyze_patterns called on its own, on descriptions that name API types
PatternWords == {"api", "http", "graphql", "grpc", "websocket", "real-time", "command", "users"}

NoPatterns == [called |-> FALSE, text |-> <<>>, result |-> _analyze_patterns(<<>>)]

AnalyzePatterns ==
    /\ ~pat.called
    /\ \E text \in SeqsUpTo(PatternWords, MaxWords) :
        pat' = [called |-> TRUE, text |-> text, result |-> _analyze_patterns(text)]

\* _generate_crud_endpoints called on its own: entity names that end in no,
\* one or two "s", and any of the four operations
CrudEntities == {Word("user", 0), Word("user", 1), Word("addre", 2)}

CrudOps == { SelectSeq(CrudNames, LAMBDA c : c \in ops) : ops \in SUBSET Range(CrudNames) }

NoCrud == [called |-> FALSE, entities |-> <<>>, crud_ops |-> <<>>, endpoints |-> <<>>]

GenerateCrudEndpoints ==
    /\ ~crud.called
    /\ \E entities \in SeqsUpTo(CrudEntities, MaxEndpoints), crud_ops \in CrudOps :
        crud' = [called |-> TRUE, entities |-> entities, crud_ops |-> crud_ops,
                 endpoints |-> _generate_crud_endpoints(entities, crud_ops)]

(***************************************************************************)
(* APIGenerator (text2api/core/generator.py)                               *)
(*                                                                         *)
(* A description is a sequence of characters: "a" is any character that is *)
(* not white space, " " is any white-space character.                      *)
(***************************************************************************)
DescChars == {"a", " "}

Descriptions == SeqsUpTo(DescChars, MaxDescLen)

\* len(description.split()): the number of maximal runs of non-space characters
WordCount(description) ==
    Cardinality({ i \in 1..Len(description) :
                    /\ description[i] # " "
                    /\ (i = 1 \/ description[i-1] = " ") })

\* description.strip() is empty
IsBlank(description) == \A i \in 1..Len(description) : description[i] = " "

\* validate_description
validate_description(description) ==
    IF description = <<>> \/ IsBlank(description)
    THEN FALSE
    ELSE WordCount(description) >= 3

\* what ollama_client.generate does when it is called: the text of the
\* exception it raises, or "" when it returns a response
OllamaErrors == {"Blad komunikacji z Ollama", "Blad parsowania odpowiedzi Ollama"}

InvalidDescriptionResult ==
    [ outcome |-> "returned", status |-> "error",
      error |-> "Invalid description. Please provide a more detailed description.",
      message |-> "", llm_calls |-> 0 ]

OllamaFailedResult(e) ==
    [ outcome |-> "returned", status |-> "error",
      error |-> "Failed to generate API with Ollama: " \o e,
      message |-> "", llm_calls |-> 1 ]

OllamaSuccessResult ==
    [ outcome |-> "returned", status |-> "success", error |-> "",
      message |-> "API generated successfully with Ollama", llm_calls |-> 1 ]

TemplateOnlyResult ==
    [ outcome |-> "returned", status |-> "success", error |-> "",
      message |-> "Basic API template generated (Ollama not configured)",
      llm_calls |-> 0 ]

\* the ollama_client.generate call without a try/except around it
GenerateWithOllama_NoExcept(llm_error) ==
    IF llm_error # ""
    THEN [ outcome |-> "raised", status |-> "", error |-> llm_error,
           message |-> "", llm_calls |-> 1 ]
    ELSE OllamaSuccessResult

\* the try/except around the ollama_client.generate call
GenerateWithOllama(llm_error) ==
    IF llm_error # "" THEN OllamaFailedResult(llm_error) ELSE OllamaSuccessResult

\* APIGenerator.generate
APIGenerator_generate(description, configured, llm_error) ==
    IF ~validate_description(description) THEN InvalidDescriptionResult
    ELSE IF configured THEN GenerateWithOllama(llm_error)
    ELSE TemplateOnlyResult

\* before any generate call
NotGenerated ==
    [ called |-> FALSE, description |-> <<>>, configured |-> FALSE,
      llm_error |-> "",
      result |-> [outcome |-> "none", status |-> "", error |-> "",
                  message |-> "", llm_calls |-> 0] ]

\* one generate call on an APIGenerator built with or without an ollama_url
Generate ==
    \E description \in Descriptions, configured \in BOOLEAN,
       llm_error \in OllamaErrors \cup {""} :
        orch' = [ called |-> TRUE, description |-> description,
                  configured |-> configured, llm_error |-> llm_error,
                  result |-> APIGenerator_generate(description, configured,
                                                   llm_error) ]

(***************************************************************************)
(* OllamaClient (text2api/llm/ollama_client.py)                            *)
(*                                                                         *)
(* A response text is a sequence of tokens: the braces, a scalar JSON      *)
(* value "1", and the two Markdown fences (the three backquotes are        *)
(* written ~~~).  A JSON document is a scalar, an                          *)
(* empty object "{" "}" or an object with one member "{" value "}".        *)
(***************************************************************************)
Model8b == "llama3.1:8b"
Model7b == "llama3.1:7b"

RespTokens == {"{", "}", "1", "~~~json", "~~~"}

Responses == SeqsUpTo(RespTokens, MaxRespLen)

\* json.loads accepts the text
RECURSIVE IsJson(_)
IsJson(s) ==
    \/ s = <<"1">>
    \/ /\ Len(s) >= 2
       /\ s[1] = "{"
       /\ s[Len(s)] = "}"
       /\ (Len(s) = 2 \/ IsJson(SubSeq(s, 2, Len(s) - 1)))

\* json.loads: the value of a text it accepts
RECURSIVE JsonLoads(_)
JsonLoads(s) ==
    IF s = <<"1">> THEN [kind |-> "number", members |-> <<>>]
    ELSE IF Len(s) = 2 THEN [kind |-> "object", members |-> <<>>]
    ELSE [kind |-> "object",
          members |-> <<JsonLoads(SubSeq(s, 2, Len(s) - 1))>>]

\* response.replace(fence + "json", "").replace(fence, ""), fence being the
\* three-backquote Markdown fence, written ~~~ here
StripFences(response) ==
    SelectSeq(response, LAMBDA t : t # "~~~json" /\ t # "~~~")

\* _clean_json_response that strips the fences and cuts nothing
_clean_json_response_NoCut(response) == StripFences(response)

\* _clean_json_response; find and rfind are 0-based and -1 when absent
_clean_json_response(response) ==
    LET r == StripFences(response)
        start == FirstIndex(r, "{") - 1
        end == (LastIndex(r, "}") - 1) + 1
    IN  IF start # -1 /\ end # 0 THEN SubSeq(r, start + 1, end) ELSE r

\* _create_fallback_analysis
_create_fallback_analysis ==
    [ api_type |-> "rest",
      name |-> "generated_api",
      framework |-> "fastapi",
      main_entities |-> <<"item">>,
      endpoints |-> << [path |-> "/items", method |-> "GET",
                        name |-> "list_items"] >>,
      auth_required |-> FALSE,
      database_required |-> TRUE ]

\* the try/except of analyze_api_requirements, given the text generate returned
ParseResponse(response) ==
    IF IsJson(response) THEN JsonLoads(response)
    ELSE LET cleaned_response == _clean_json_response(response)
         IN  IF IsJson(cleaned_response) THEN JsonLoads(cleaned_response)
             ELSE _create_fallback_analysis

\* one request the client made, in the order made
Call(op, model, ok, found) == [op |-> op, model |-> model, ok |-> ok, found |-> found]

\* what the server does with a model-listing request: it fails, or it answers
\* with the set of installed models
ListOutcomes == { [ok |-> FALSE, installed |-> {}] }
                \cup { [ok |-> TRUE, installed |-> S] : S \in SUBSET {Model8b, Model7b} }

\* check_model_exists: the listing request; it raises when list_models raises
check_model_exists(model_name, listing) ==
    [ calls |-> <<Call("list", model_name, listing.ok,
                       listing.ok /\ model_name \in listing.installed)>>,
      result |-> IF ~listing.ok THEN "raised"
                 ELSE IF model_name \in listing.installed THEN "true" ELSE "false" ]

\* pull_model: logs and returns False on an HTTP error
pull_model(model_name, pull_ok) ==
    [ calls |-> <<Call("pull", model_name, pull_ok, FALSE)>>,
      result |-> IF pull_ok THEN "true" ELSE "false" ]

\* ensure_model
ensure_model(model_name, listing, pull_ok) ==
    LET c == check_model_exists(model_name, listing)
    IN  IF c.result = "false"
        THEN LET p == pull_model(model_name, pull_ok)
             IN  [calls |-> c.calls \o p.calls, result |-> p.result]
        ELSE c

ListingError == "Blad pobierania listy modeli"
NoModelError == "Nie mozna zaladowac zadnego modelu Llama"
GenerateError == "Blad komunikacji z Ollama"

OcRaised(calls, error) ==
    [ calls |-> calls, outcome |-> "raised", error |-> error,
      response |-> <<>>, value |-> [kind |-> "none", members |-> <<>>] ]

\* the generate call and what follows it
GenerateAndParse(calls, model, gen_ok, response) ==
    LET all == calls \o <<Call("generate", model, gen_ok, FALSE)>>
    IN  IF ~gen_ok THEN OcRaised(all, GenerateError)
        ELSE [ calls |-> all, outcome |-> "returned", error |-> "",
               response |-> response, value |-> ParseResponse(response) ]

\* analyze_api_requirements calling generate with the first model whichever
\* model was ensured
analyze_api_requirements_Always8b(listing1, pull1, listing2, pull2, gen_ok, response) ==
    LET e1 == ensure_model(Model8b, listing1, pull1)
        e2 == ensure_model(Model7b, listing2, pull2)
    IN  IF e1.result = "raised" THEN OcRaised(e1.calls, ListingError)
        ELSE IF e1.result = "true"
             THEN GenerateAndParse(e1.calls, Model8b, gen_ok, response)
        ELSE IF e2.result = "raised"
             THEN OcRaised(e1.calls \o e2.calls, ListingError)
        ELSE IF e2.result = "false"
             THEN OcRaised(e1.calls \o e2.calls, NoModelError)
        ELSE GenerateAndParse(e1.calls \o e2.calls, Model8b, gen_ok, response)

\* analyze_api_requirements
analyze_api_requirements(listing1, pull1, listing2, pull2, gen_ok, response) ==
    LET e1 == ensure_model(Model8b, listing1, pull1)
        e2 == ensure_model(Model7b, listing2, pull2)
    IN  IF e1.result = "raised" THEN OcRaised(e1.calls, ListingError)
        ELSE IF e1.result = "true"
             THEN GenerateAndParse(e1.calls, Model8b, gen_ok, response)
        ELSE IF e2.result = "raised"
             THEN OcRaised(e1.calls \o e2.calls, ListingError)
        ELSE IF e2.result = "false"
             THEN OcRaised(e1.calls \o e2.calls, NoModelError)
        ELSE GenerateAndParse(e1.calls \o e2.calls, Model7b, gen_ok, response)

\* before any analyze_api_requirements call
NoRequest ==
    [ calls |-> <<>>, outcome |-> "none", error |-> "", response |-> <<>>,
      value |-> [kind |-> "none", members |-> <<>>] ]

\* one analyze_api_requirements call against a server that answers each
\* request in any of the ways it can
\* the client keeps nothing from one call to the next, so a behaviour has one
AnalyzeApiRequirements ==
    /\ oc.outcome = "none"
    /\ \E listing1 \in ListOutcomes, pull1 \in BOOLEAN,
          listing2 \in ListOutcomes, pull2 \in BOOLEAN,
          gen_ok \in BOOLEAN, response \in Responses :
            oc' = analyze_api_requirements(listing1, pull1, listing2, pull2,
                                           gen_ok, response)

(***************************************************************************)
(* Generators (src/text2api/generators/*.py) and the CLI's                 *)
(* _prepare_generator (src/text2api/cli.py)                                *)
(*                                                                         *)
(* A spec dict has a "models" key or not; a model has a "fields" key or    *)
(* not; a field is a dict with a "name" or a bare string.  The generator   *)
(* keeps a reference to the dict it is handed: gen.api_spec is that one    *)
(* object, as the generator and its caller both see it, and                *)
(* gen.handed_spec is its value at the moment it was handed over.          *)
(***************************************************************************)
DictField(name) == [name |-> name, isDict |-> TRUE]
StrField(name) == [name |-> name, isDict |-> FALSE]

FieldLists ==
    { <<DictField("name")>>,
      <<DictField("id"), DictField("created_at"), DictField("updated_at")>>,
      <<StrField("name")>> }

ModelDicts ==
    { [name |-> "Item", hasFields |-> FALSE, fields |-> <<>>] }
    \cup { [name |-> "Item", hasFields |-> TRUE, fields |-> f] : f \in FieldLists }

\* BaseGenerator.__init__: self.api_spec = {}
EmptySpec == [hasModels |-> FALSE, models |-> <<>>]

SpecDicts ==
    { EmptySpec }
    \cup { [hasModels |-> TRUE, models |-> m] : m \in SeqsUpTo(ModelDicts, MaxModels) }

GeneratorKinds == {"openapi", "fastapi", "client"}

\* a project name is a sequence of characters
ProjectNameInputs == { <<>>, <<"A", " ">>, <<"a">> }

\* str.lower() and str.replace(" ", "_"), character by character
LowerChar(c) == IF c = "A" THEN "a" ELSE c
ReplaceSpace(c) == IF c = " " THEN "_" ELSE c

\* set_project_name
set_project_name(name) == [i \in 1..Len(name) |-> ReplaceSpace(LowerChar(name[i]))]

MissingConfiguration == "MissingConfiguration"

\* a call's effect: how it ended, the spec object afterwards, the models it
\* rendered from, and the directories and files it created or wrote, in order
Effect(outcome, api_spec, rendered, writes) ==
    [outcome |-> outcome, api_spec |-> api_spec, rendered |-> rendered,
     writes |-> writes]

Dir(path) == [type |-> "dir", path |-> path]
File(path) == [type |-> "file", path |-> path]

\* ensure_output_dir without its project_name check
ensure_output_dir_NoCheck(g) ==
    Effect("returned", g.api_spec, <<>>, <<Dir("")>>)

\* ensure_output_dir
ensure_output_dir(g) ==
    IF g.project_name = <<>>
    THEN Effect(MissingConfiguration, g.api_spec, <<>>, <<>>)
    ELSE Effect("returned", g.api_spec, <<>>, <<Dir("")>>)

\* OpenAPIGenerator._generate_models: the default models, set on the spec
\* when it has no "models" key
OpenAPIDefaultModels ==
    << [name |-> "Item", hasFields |-> TRUE,
        fields |-> <<StrField("id"), StrField("name"), StrField("description")>>] >>

\* OpenAPIGenerator._generate_models without the default models
OpenAPI_generate_models_NoDefault(api_spec) == api_spec

OpenAPI_generate_models(api_spec) ==
    IF ~api_spec.hasModels
    THEN [hasModels |-> TRUE, models |-> OpenAPIDefaultModels]
    ELSE api_spec

\* OpenAPIGenerator.generate
OpenAPI_generate(g) ==
    IF g.project_name = <<>>
    THEN Effect(MissingConfiguration, g.api_spec, <<>>, <<>>)
    ELSE LET spec == OpenAPI_generate_models(g.api_spec)
         IN  Effect("returned", spec, spec.models,
                    <<Dir(""), File("openapi.json")>>)

\* FastAPIGenerator._generate_models: the default models
FastAPIDefaultModels ==
    << [name |-> "Item", hasFields |-> TRUE,
        fields |-> <<DictField("id"), DictField("name"), DictField("description"),
                     DictField("created_at"), DictField("updated_at")>>] >>

StandardFields ==
    <<DictField("id"), DictField("created_at"), DictField("updated_at")>>

\* the standard fields appended to model_fields: those whose name is not there
MissingStandardFields(fields) ==
    SelectSeq(StandardFields,
              LAMBDA f : \A i \in 1..Len(fields) : fields[i].name # f.name)

\* field["name"] raises TypeError on a field that is a bare string
HasStrField(model) == \E i \in 1..Len(model.fields) : ~model.fields[i].isDict

\* the loop over the models: model_fields is the model's own list when the
\* model has a "fields" key, a new list otherwise; the loop stops at the first
\* model with a bare-string field
FastAPI_loop_model(model) ==
    IF model.hasFields
    THEN [model EXCEPT !.fields = @ \o MissingStandardFields(@)]
    ELSE model

FastAPI_generate_models(api_spec) ==
    LET spec == IF ~api_spec.hasModels
                THEN [hasModels |-> TRUE, models |-> FastAPIDefaultModels]
                ELSE api_spec
        n == Len(spec.models)
        bad == { i \in 1..n : HasStrField(spec.models[i]) }
        stop == IF bad = {} THEN n + 1
                ELSE CHOOSE i \in bad : \A j \in bad : i <= j
    IN  [ raised |-> bad # {},
          spec |-> [spec EXCEPT !.models =
                      [i \in 1..n |-> IF i < stop THEN FastAPI_loop_model(@[i])
                                      ELSE @[i]]] ]

\* the steps with the main app generated before the routers
FastAPISteps_MainFirst ==
    <<"models", "main", "routers", "requirements", "dockerfile">>

\* the steps of FastAPIGenerator.generate that load a template
FastAPISteps == <<"models", "routers", "main", "requirements", "dockerfile">>
TemplateSteps == {"models", "routers", "main", "dockerfile"}

FastAPIDirs ==
    <<Dir(""), Dir("app"), Dir("app/api"), Dir("app/core"), Dir("app/db")>>

RouterFile(model) == File("app/api/v1/item.py")

\* the files of each step, in the order written
FastAPIStepWrites(step, spec) ==
    CASE step = "models" -> <<Dir("app/models"), File("app/models/__init__.py")>>
      [] step = "routers" ->
            <<Dir("app/api/v1"), File("app/api/v1/__init__.py")>>
            \o [i \in 1..Len(spec.models) |-> RouterFile(spec.models[i])]
      [] step = "main" -> <<File("app/main.py")>>
      [] step = "requirements" -> <<File("requirements.txt")>>
      [] step = "dockerfile" -> <<File("Dockerfile")>>

\* what a step has written when its template fails to load or render
FastAPIStepPartial(step, spec) ==
    IF step = "routers" /\ spec.models # <<>>
    THEN <<Dir("app/api/v1"), File("app/api/v1/__init__.py")>>
    ELSE <<>>

\* a step loads a template: routers does only when there is a model
LoadsTemplate(step, spec) ==
    step \in TemplateSteps /\ (step = "routers" => spec.models # <<>>)

\* _copy_static_files: copies the template directory's static tree when the
\* installation has one
StaticWrites(static_exists) ==
    IF static_exists THEN <<Dir("app/static"), File("app/static/style.css")>>
    ELSE <<>>

\* the __init__.py files written last: one in every directory under the project
\* directory that has none
WalkDirs == <<"", "app", "app/api", "app/api/v1", "app/core", "app/db",
              "app/models", "app/static">>

InitFile(d) == File(IF d = "" THEN "__init__.py" ELSE d \o "/__init__.py")

Backfill(existing) ==
    LET todo == SelectSeq(WalkDirs, LAMBDA d : /\ Dir(d) \in existing
                                                /\ InitFile(d) \notin existing)
    IN  [i \in 1..Len(todo) |-> InitFile(todo[i])]

RECURSIVE FastAPIRunSteps(_, _, _)
FastAPIRunSteps(steps, spec, fail_step) ==
    IF steps = <<>> THEN [raised |-> FALSE, writes |-> <<>>]
    ELSE IF Head(steps) = fail_step /\ LoadsTemplate(Head(steps), spec)
         THEN [raised |-> TRUE, writes |-> FastAPIStepPartial(Head(steps), spec)]
    ELSE LET rest == FastAPIRunSteps(Tail(steps), spec, fail_step)
         IN  [raised |-> rest.raised,
              writes |-> FastAPIStepWrites(Head(steps), spec) \o rest.writes]

\* FastAPIGenerator.generate removing the step files when a template fails
FastAPI_generate_Rollback(g, existing, fail_step, static_exists) ==
    IF g.project_name = <<>>
    THEN Effect(MissingConfiguration, g.api_spec, <<>>, <<>>)
    ELSE LET m == FastAPI_generate_models(g.api_spec)
             run == FastAPIRunSteps(FastAPISteps, m.spec, fail_step)
             written == FastAPIDirs \o run.writes \o StaticWrites(static_exists)
         IN  IF m.raised
             THEN Effect("TypeError", m.spec, <<>>, FastAPIDirs)
             ELSE IF run.raised
             THEN Effect("TemplateError", m.spec, m.spec.models, FastAPIDirs)
             ELSE Effect("returned", m.spec, m.spec.models,
                         written \o Backfill(existing \cup Range(written)))

\* FastAPIGenerator.generate; fail_step names the step whose template fails
\* ("none" when every template loads and renders)
FastAPI_generate(g, existing, fail_step, static_exists) ==
    IF g.project_name = <<>>
    THEN Effect(MissingConfiguration, g.api_spec, <<>>, <<>>)
    ELSE LET m == FastAPI_generate_models(g.api_spec)
             run == FastAPIRunSteps(FastAPISteps, m.spec, fail_step)
             written == FastAPIDirs \o run.writes \o StaticWrites(static_exists)
         IN  IF m.raised
             THEN Effect("TypeError", m.spec, <<>>, FastAPIDirs)
             ELSE IF run.raised
             THEN Effect("TemplateError", m.spec, m.spec.models,
                         FastAPIDirs \o run.writes)
             ELSE Effect("returned", m.spec, m.spec.models,
                         written \o Backfill(existing \cup Range(written)))

ClientLanguages == {"python", "typescript", "ruby"}

ClientWrites(language) ==
    IF language = "python"
    THEN <<Dir("clients/python"), File("clients/python/client.py"),
           File("clients/python/requirements.txt")>>
    ELSE <<Dir("clients/typescript"), File("clients/typescript/Client.ts"),
           File("clients/typescript/package.json"),
           File("clients/typescript/tsconfig.json")>>

\* ClientGenerator.generate; templates_ok: the language's template directory
\* exists and its template renders
Client_generate(g, language, templates_ok) ==
    LET models == IF g.api_spec.hasModels THEN g.api_spec.models ELSE <<>>
    IN  IF g.project_name = <<>>
        THEN Effect(MissingConfiguration, g.api_spec, <<>>, <<>>)
        ELSE IF language = "ruby"
        THEN Effect("UnsupportedLanguage", g.api_spec, <<>>, <<Dir("")>>)
        ELSE IF ~templates_ok
        THEN Effect("TemplateError", g.api_spec, <<>>,
                    <<Dir("")>> \o (IF language = "typescript"
                                    THEN <<Dir("clients/typescript")>> ELSE <<>>))
        ELSE Effect("returned", g.api_spec, models,
                    <<Dir("")>> \o ClientWrites(language))

\* generate, by generator class
generate(g, existing, fail_step, static_exists, language, templates_ok) ==
    CASE g.kind = "openapi" -> OpenAPI_generate(g)
      [] g.kind = "fastapi" -> FastAPI_generate(g, existing, fail_step, static_exists)
      [] g.kind = "client"  -> Client_generate(g, language, templates_ok)

\* _prepare_generator: the dict it builds and hands to set_api_spec; it raises
\* AttributeError on a field that is a bare string (field.get)
PrepareRaises(api_spec) ==
    api_spec.hasModels /\ \E i \in 1..Len(api_spec.models) : HasStrField(api_spec.models[i])

PreparedSpec(api_spec) ==
    [ hasModels |-> TRUE,
      models |-> IF api_spec.hasModels
                 THEN [i \in 1..Len(api_spec.models) |->
                         [name |-> api_spec.models[i].name, hasFields |-> TRUE,
                          fields |-> api_spec.models[i].fields]]
                 ELSE <<>> ]

NewGen(kind) ==
    [ kind |-> kind, project_name |-> <<>>, api_spec |-> EmptySpec,
      handed |-> FALSE, prepared |-> FALSE, handed_spec |-> EmptySpec ]

NoCall ==
    [ op |-> "none", outcome |-> "none", rendered |-> <<>>, writes |-> <<>>,
      name_set |-> FALSE, handed |-> FALSE, failed |-> "none" ]

\* a generator is constructed on a new, empty output directory
NewGenerator ==
    \E kind \in GeneratorKinds :
        /\ gen' = NewGen(kind)
        /\ fs' = {}
        /\ gen_last' = NoCall

\* the record of a call that renders nothing and writes nothing
Setter(op) ==
    [ op |-> op, outcome |-> "returned", rendered |-> <<>>, writes |-> <<>>,
      name_set |-> gen.project_name # <<>>, handed |-> gen.handed,
      failed |-> "none" ]

SetProjectName ==
    \E name \in ProjectNameInputs :
        /\ gen' = [gen EXCEPT !.project_name = set_project_name(name)]
        /\ gen_last' = Setter("set_project_name")
        /\ UNCHANGED fs

SetApiSpec ==
    \E spec \in SpecDicts :
        /\ gen' = [gen EXCEPT !.api_spec = spec, !.handed = TRUE,
                              !.prepared = FALSE, !.handed_spec = spec]
        /\ gen_last' = Setter("set_api_spec")
        /\ UNCHANGED fs

\* the CLI, on the generator it has just constructed, sets the project name
\* and the spec dict it builds from the extracted spec
PrepareGenerator ==
    /\ gen = NewGen(gen.kind)
    /\ gen_last = NoCall
    /\ \E name \in ProjectNameInputs, spec \in SpecDicts :
        /\ ~PrepareRaises(spec)
        /\ gen' = [ kind |-> gen.kind, project_name |-> set_project_name(name),
                    api_spec |-> PreparedSpec(spec), handed |-> TRUE,
                    prepared |-> TRUE, handed_spec |-> PreparedSpec(spec) ]
        /\ fs' = {}
        /\ gen_last' = NoCall

\* the effect of a call on the generator, the file system and the call record
\* (failed: the FastAPI step whose template failed, "none" for any other end)
Apply(op, e, failed) ==
    /\ gen' = [gen EXCEPT !.api_spec = e.api_spec]
    /\ fs' = fs \cup Range(e.writes)
    /\ gen_last' = [ op |-> op, outcome |-> e.outcome, rendered |-> e.rendered,
                     writes |-> e.writes,
                     name_set |-> gen.project_name # <<>>,
                     handed |-> gen.handed,
                     failed |-> failed ]

EnsureOutputDir == Apply("ensure_output_dir", ensure_output_dir(gen), "none")

\* generate; the template failures and the static tree matter to the FastAPI
\* generator only, the language and its templates to the client generator only
GeneratorGenerate ==
    \E fail_step \in IF gen.kind = "fastapi" THEN TemplateSteps \cup {"none"}
                     ELSE {"none"},
       static_exists \in IF gen.kind = "fastapi" THEN BOOLEAN ELSE {FALSE},
       language \in IF gen.kind = "client" THEN ClientLanguages ELSE {"python"},
       templates_ok \in IF gen.kind = "client" THEN BOOLEAN ELSE {TRUE} :
        LET e == generate(gen, fs, fail_step, static_exists, language, templates_ok)
        IN  Apply("generate", e,
                  IF gen.kind = "fastapi" /\ e.outcome = "TemplateError"
                  THEN fail_step ELSE "none")

(***************************************************************************)
(* MCPIntegration (text2api/core/mcp_integration.py)                       *)
(*                                                                         *)
(* An ApiSpec's description is the set of the words it contains.  A Python *)
(* object passed to a method and changed there is changed for the caller:  *)
(* mcp_spec is the caller's ApiSpec object, mcp_last.input its value when  *)
(* enhance_spec was called.                                                *)
(***************************************************************************)
AllCapabilities ==
    <<"enhanced_nlp_analysis", "domain_specific_templates",
      "code_generation_optimization", "security_pattern_detection",
      "performance_recommendations">>

\* an availability check that finds a server
_check_mcp_availability_Found == TRUE

\* _check_mcp_availability
_check_mcp_availability == FALSE

DescWords == {"product", "user", "private", "post"}

McpEndpoint(path, method, name) ==
    [path |-> path, method |-> method, name |-> name, description |-> "",
     parameters |-> <<>>]

McpEndpoints ==
    { McpEndpoint("/items", "GET", "list_items"),
      McpEndpoint("/items/{id}", "DELETE", "delete_item"),
      McpEndpoint("/cart/add", "POST", "add_to_cart") }

\* "list" in endpoint.name
NameHasList(name) == name \in {"list_items"}

\* endpoint.path.count("/")
SlashCount(path) ==
    CASE path = "/items" -> 1
      [] path = "/items/{id}" -> 2
      [] path = "/cart/add" -> 2
      [] path = "/orders/{id}/status" -> 3
      [] path = "/posts/{id}/comments" -> 3

McpModel(name, fields) == [name |-> name, fields |-> fields]

McpModelLists ==
    { <<>>,
      <<McpModel("User", <<"id", "name">>)>>,
      <<McpModel("User", <<"id">>), McpModel("Post", <<"id", "owner_user_id">>)>>,
      <<McpModel("Product", <<"id", "email">>)>> }

\* str.lower() of a model name
LowerName(name) ==
    CASE name = "User" -> "user"
      [] name = "Post" -> "post"
      [] name = "Product" -> "product"

\* field["name"].endswith("_id") and other_name in field["name"]
FieldRefers(field, other_name) ==
    field \in {"owner_user_id", "user_id"} /\ other_name = "user"

McpSpecs ==
    [ description : SUBSET DescWords,
      endpoints : SeqsUpTo(McpEndpoints, MaxEndpoints),
      models : McpModelLists,
      auth_type : {"None", "jwt"},
      database_required : BOOLEAN ]

\* _detect_entity_relationships: the models related to the model at index i
RelatedTo(spec, i) ==
    SelectSeq([j \in 1..Len(spec.models) |-> spec.models[j].name],
              LAMBDA other :
                  /\ other # spec.models[i].name
                  /\ \E k \in 1..Len(spec.models[i].fields) :
                        FieldRefers(spec.models[i].fields[k], LowerName(other)))

\* the fields of fs2 that are not among fs1, appended to fs1
AppendMissing(fs1, fs2) ==
    fs1 \o SelectSeq(fs2, LAMBDA f : f \notin Range(fs1))

\* _enhance_nlp_analysis with _add_entity_relationships
_enhance_nlp_analysis(spec) ==
    [spec EXCEPT !.models =
        [i \in 1..Len(@) |->
            [@[i] EXCEPT !.fields =
                AppendMissing(@, [j \in 1..Len(RelatedTo(spec, i)) |->
                                    LowerName(RelatedTo(spec, i)[j]) \o "_id"])]]]

DomainOrder == <<"ecommerce", "blog", "cms", "crm", "hrm">>

DomainKeywords(domain) ==
    CASE domain = "ecommerce" -> {"product", "order", "cart", "payment", "customer"}
      [] domain = "blog" -> {"post", "comment", "tag", "author", "category"}
      [] domain = "cms" -> {"content", "page", "article", "media", "user"}
      [] domain = "crm" -> {"customer", "lead", "contact", "deal", "company"}
      [] domain = "hrm" -> {"employee", "department", "position", "salary", "leave"}

\* _detect_domain: the first domain of the highest score, "" when none scores
_detect_domain(spec) ==
    LET words == spec.description
                 \cup { LowerName(spec.models[i].name) : i \in 1..Len(spec.models) }
        score(i) == Cardinality(DomainKeywords(DomainOrder[i]) \cap words)
        best == CHOOSE i \in 1..Len(DomainOrder) :
                    /\ \A j \in 1..Len(DomainOrder) : score(j) <= score(i)
                    /\ \A j \in 1..(i-1) : score(j) < score(i)
    IN  IF score(best) > 0 THEN DomainOrder[best] ELSE ""

AdditionalEndpoints(domain) ==
    CASE domain = "ecommerce" ->
            << McpEndpoint("/cart/add", "POST", "add_to_cart"),
               McpEndpoint("/orders/{id}/status", "PUT", "update_order_status") >>
      [] domain = "blog" ->
            << McpEndpoint("/posts/{id}/comments", "GET", "get_post_comments") >>
      [] OTHER -> <<>>

\* the additional endpoints whose path the spec does not have yet
NewEndpoints(endpoints, additional) ==
    SelectSeq(additional,
              LAMBDA ep : \A i \in 1..Len(endpoints) : endpoints[i].path # ep.path)

OrJwt(auth_type) == IF auth_type = "None" THEN "jwt" ELSE auth_type

\* _apply_domain_templates with _apply_domain_enhancements
_apply_domain_templates(spec) ==
    LET domain == _detect_domain(spec)
        added == [spec EXCEPT !.endpoints =
                     @ \o NewEndpoints(@, AdditionalEndpoints(domain))]
    IN  IF domain = "ecommerce"
        THEN [added EXCEPT !.auth_type = OrJwt(@), !.database_required = TRUE]
        ELSE added

PrivacyFields == <<"privacy_consent", "data_retention_date">>

\* _enhance_security
_enhance_security(spec) ==
    LET auth == [spec EXCEPT !.auth_type =
                    IF "user" \in spec.description THEN OrJwt(@) ELSE @]
    IN  IF "private" \in spec.description
        THEN [auth EXCEPT !.models =
                [i \in 1..Len(@) |->
                    IF Range(@[i].fields) \cap {"email", "phone", "name"} # {}
                    THEN [@[i] EXCEPT !.fields = AppendMissing(@, PrivacyFields)]
                    ELSE @[i]]]
        ELSE auth

PaginationParams == <<"page", "limit">>

\* _optimize_performance
_optimize_performance(spec) ==
    LET eps == spec.endpoints
        caching == \E i \in 1..Len(eps) : eps[i].method = "GET"
        pagination == \E i \in 1..Len(eps) : NameHasList(eps[i].name)
        cached(ep) == IF caching /\ ep.method = "GET"
                      THEN [ep EXCEPT !.description = @ \o " (with caching)"]
                      ELSE ep
        paged(ep) == IF pagination /\ (NameHasList(ep.name) \/ SlashCount(ep.path) = 1)
                     THEN [ep EXCEPT !.parameters = AppendMissing(@, PaginationParams)]
                     ELSE ep
    IN  [spec EXCEPT !.endpoints = [i \in 1..Len(eps) |-> paged(cached(eps[i]))]]

\* the four passes of enhance_spec, each run when its capability is listed
Pass(capabilities, capability, spec, enhanced) ==
    IF capability \in Range(capabilities) THEN enhanced ELSE spec

EnhancePasses(capabilities, spec) ==
    LET s1 == Pass(capabilities, "enhanced_nlp_analysis", spec,
                   _enhance_nlp_analysis(spec))
        s2 == Pass(capabilities, "domain_specific_templates", s1,
                   _apply_domain_templates(s1))
        s3 == Pass(capabilities, "security_pattern_detection", s2,
                   _enhance_security(s2))
    IN  Pass(capabilities, "performance_recommendations", s3,
             _optimize_performance(s3))

\* enhance_spec: every pass works on the object it is given and returns it, so
\* the object returned is the object passed in, with the changes made to it
enhance_spec(m, spec) ==
    LET after == IF ~m.enabled THEN spec ELSE EnhancePasses(m.capabilities, spec)
    IN  [ input_after |-> after, returned |-> after, same_object |-> TRUE ]

EmptyApiSpec ==
    [ description |-> {}, endpoints |-> <<>>, models |-> <<>>,
      auth_type |-> "None", database_required |-> FALSE ]

NoEnhance ==
    [ called |-> FALSE, enabled |-> FALSE, input |-> EmptyApiSpec,
      returned |-> EmptyApiSpec, same_object |-> FALSE ]

\* MCPIntegration.__init__
McpDisabled == [enabled |-> FALSE, capabilities |-> <<>>]

\* the integration once an availability check has reported a server: enabled
\* is set and the capabilities are fetched
McpEnabled == [enabled |-> TRUE, capabilities |-> AllCapabilities]

\* initialize
Initialize ==
    /\ mcp' = [ enabled |-> _check_mcp_availability,
                capabilities |-> IF _check_mcp_availability THEN AllCapabilities
                                 ELSE mcp.capabilities ]
    /\ UNCHANGED <<mcp_spec, mcp_last>>

\* enhance_spec called with an ApiSpec object of the caller
EnhanceSpec ==
    /\ ~mcp_last.called
    /\ \E spec \in McpSpecs :
        LET r == enhance_spec(mcp, spec)
        IN  /\ mcp_spec' = r.input_after
            /\ mcp_last' = [ called |-> TRUE, enabled |-> mcp.enabled,
                             input |-> spec, returned |-> r.returned,
                             same_object |-> r.same_object ]
            /\ UNCHANGED mcp

(***************************************************************************)
(* Command-line front ends: the flat generate command (text2api/cli.py)    *)
(* and the grouped generate server, client and openapi commands            *)
(* (src/text2api/cli.py).  The disk is fs: the output directory and, below *)
(* it, the project directory the commands of one behaviour work on.        *)
(***************************************************************************)
\* the output directory itself, the parent of the project directory
OutputDir == Dir("..")

\* the keys of the dict APIGenerator.generate returns
ResultKeys(result) ==
    IF result.status = "success"
    THEN {"status", "api_type", "framework", "project_dir", "files_generated",
          "message"}
    ELSE {"status", "error"}

\* how a command's process ended: whether an except clause caught an
\* exception, the exit code, and what it created on disk, in order
Ended(caught, exit_code, writes) ==
    [caught |-> caught, exit_code |-> exit_code, writes |-> writes]

\* the flat generate command: APIGenerator() creates the output directory;
\* the try block reads result['instructions'] on success and result['error']
\* otherwise; its except clause prints a panel and the command returns
cli_generate(description, configured, llm_error) ==
    LET result == APIGenerator_generate(description, configured, llm_error)
        key == IF result.status = "success" THEN "instructions" ELSE "error"
    IN  Ended(key \notin ResultKeys(result), 0, <<OutputDir>>)

\* str.strip("_")
RECURSIVE StripUnderscores(_)
StripUnderscores(s) ==
    IF s = <<>> THEN s
    ELSE IF Head(s) = "_" THEN StripUnderscores(Tail(s))
    ELSE IF s[Len(s)] = "_" THEN StripUnderscores(SubSeq(s, 1, Len(s) - 1))
    ELSE s

\* _generate_project_name (texts here are shorter than its 30-character cut)
_generate_project_name(spec_text) ==
    LET name == StripUnderscores(
                    [i \in 1..Len(spec_text) |->
                        IF spec_text[i] = " " THEN "_" ELSE LowerChar(spec_text[i])])
    IN  IF name = <<>> THEN <<"api_project">> ELSE name

\* the spec _extract_api_spec falls back to when extract_spec raises
FallbackApiSpec ==
    [ hasModels |-> TRUE,
      models |-> << [name |-> "Item", hasFields |-> TRUE,
                     fields |-> <<DictField("id"), DictField("name"),
                                  DictField("description"), DictField("created_at"),
                                  DictField("updated_at")>>] >> ]

\* _extract_api_spec: a model without fields gets the three default fields
_extract_api_spec(extract_ok, extracted) ==
    IF ~extract_ok THEN FallbackApiSpec
    ELSE [extracted EXCEPT !.models =
            [i \in 1..Len(extracted.models) |->
                IF extracted.models[i].hasFields THEN extracted.models[i]
                ELSE [extracted.models[i] EXCEPT
                        !.hasFields = TRUE,
                        !.fields = <<DictField("id"), DictField("created_at"),
                                     DictField("updated_at")>>]]]

\* the dicts extract_spec returns: no models key, or at most one model
ExtractedSpecs == { spec \in SpecDicts : Len(spec.models) <= 1 }

\* os.makedirs(output_dir) whatever the --dry-run flag says
MakeOutputDir_Always(dry_run) == <<OutputDir>>

\* "if not dry_run: os.makedirs(output_dir, exist_ok=True)"
MakeOutputDir(dry_run) == IF dry_run THEN <<>> ELSE <<OutputDir>>

CommandKind(command) ==
    CASE command = "server" -> "fastapi"
      [] command = "client" -> "client"
      [] command = "openapi" -> "openapi"

\* the --language choices of generate client
CliLanguages == {"python", "typescript", "javascript"}

\* generate server, generate client, generate openapi: the body of the try
\* block; the except clause ends the process with sys.exit(1).  In openapi,
\* json is a local name of the function (it is imported further down), so
\* showing the spec raises UnboundLocalError.
generate_command(command, dry_run, show_spec, project_name, api_spec, existing, fail_step, static_exists, language, templates_ok) ==
    LET made == MakeOutputDir(dry_run)
        g == [ kind |-> CommandKind(command),
               project_name |-> set_project_name(project_name),
               api_spec |-> PreparedSpec(api_spec), handed |-> TRUE,
               prepared |-> TRUE, handed_spec |-> PreparedSpec(api_spec) ]
        e == generate(g, existing, fail_step, static_exists, language, templates_ok)
    IN  IF command = "openapi" /\ show_spec THEN Ended(TRUE, 1, <<>>)
        ELSE IF PrepareRaises(api_spec) THEN Ended(TRUE, 1, made)
        ELSE IF dry_run THEN Ended(FALSE, 0, made)
        ELSE Ended(e.outcome # "returned", IF e.outcome = "returned" THEN 0 ELSE 1,
                   made \o e.writes)

\* before any command has run
NoCommand ==
    [ command |-> "none", dry_run |-> FALSE, project_name |-> <<>>,
      caught |-> FALSE, exit_code |-> 0, runs |-> 0 ]

\* the process of a command ends: the disk and the record of the run
CommandEnds(command, dry_run, project_name, end) ==
    /\ fs' = fs \cup Range(end.writes)
    /\ cli' = [ command |-> command, dry_run |-> dry_run,
                project_name |-> project_name,
                caught |-> end.caught, exit_code |-> end.exit_code,
                runs |-> cli.runs + 1 ]

\* text2api generate DESCRIPTION [--ollama-url URL]
FlatGenerate ==
    /\ cli.runs < MaxRuns
    /\ \E description \in Descriptions, configured \in BOOLEAN,
       llm_error \in OllamaErrors \cup {""} :
        CommandEnds("generate", FALSE, cli.project_name,
                    cli_generate(description, configured, llm_error))

\* text2api generate server|client|openapi SPEC [-p NAME] [--show-spec]
\* [--dry-run]; the commands of one behaviour name the same project
GroupedGenerate ==
    /\ cli.runs < MaxRuns
    /\ \E command \in {"server", "client", "openapi"}, dry_run \in BOOLEAN,
       name \in ProjectNameInputs, extract_ok \in BOOLEAN :
      \E show_spec \in IF command = "openapi" THEN BOOLEAN ELSE {FALSE},
         spec_text \in IF name = <<>> THEN ProjectNameInputs ELSE {<<>>},
         extracted \in IF extract_ok THEN ExtractedSpecs ELSE {EmptySpec},
         fail_step \in IF command = "server" THEN TemplateSteps \cup {"none"} ELSE {"none"},
         static_exists \in IF command = "server" THEN BOOLEAN ELSE {FALSE},
         language \in IF command = "client" THEN CliLanguages ELSE {"python"},
         templates_ok \in IF command = "client" THEN BOOLEAN ELSE {TRUE} :
        LET project_name == IF name = <<>> THEN _generate_project_name(spec_text)
                            ELSE name
        IN  /\ cli.project_name \in {<<>>, project_name}
            /\ CommandEnds(command, dry_run, project_name,
                   generate_command(command, dry_run, show_spec, project_name,
                                    _extract_api_spec(extract_ok, extracted),
                                    fs, fail_step, static_exists, language,
                                    templates_ok))

(***************************************************************************)
(* FileManager (text2api/utils/file_utils.py)                              *)
(***************************************************************************)
\* batch_process_files(files, processor_func, max_concurrent) runs one task
\* per file; a task waits for the semaphore, runs processor_func inside
\* "async with semaphore" and ends with its result or its exception;
\* asyncio.gather(*tasks, return_exceptions=True) returns when all have ended.
BatchFiles == {"a.py", "b.py"}

\* before the call
NoBatch ==
    [ phase |-> "none", files |-> <<>>, max_concurrent |-> 0, permits |-> 0,
      task |-> <<>>, result |-> <<>>, log |-> <<>>, returned |-> <<>> ]

\* what processor_func(file) ended with: its result or the exception it raised
Entry(file, raised) == [file |-> file, raised |-> raised]

\* the call starts: Semaphore(max_concurrent) and one task per file
BatchStart ==
    /\ batch.phase = "none"
    /\ \E files \in SeqsUpTo(BatchFiles, MaxFiles), max_concurrent \in 0..MaxConcurrent :
        batch' = [ phase |-> "running", files |-> files,
                   max_concurrent |-> max_concurrent, permits |-> max_concurrent,
                   task |-> [i \in 1..Len(files) |-> "waiting"],
                   result |-> [i \in 1..Len(files) |-> Entry("", FALSE)],
                   log |-> <<>>, returned |-> <<>> ]

\* a waiting task enters "async with semaphore" and calls processor_func
\* (asyncio wakes waiters in arrival order; any order is allowed here)
Acquire ==
    /\ batch.phase = "running"
    /\ batch.permits > 0
    /\ \E i \in 1..Len(batch.files) :
        /\ batch.task[i] = "waiting"
        /\ batch' = [batch EXCEPT !.task[i] = "running", !.permits = @ - 1]

\* processor_func returns or raises; leaving "async with" releases the
\* semaphore either way; the task keeps the result or the exception
Finish ==
    /\ batch.phase = "running"
    /\ \E i \in 1..Len(batch.files), raised \in BOOLEAN :
        /\ batch.task[i] = "running"
        /\ batch' = [batch EXCEPT !.task[i] = "done", !.permits = @ + 1,
                                  !.result[i] = Entry(batch.files[i], raised),
                                  !.log = Append(@, [task |-> i,
                                                     file |-> batch.files[i],
                                                     raised |-> raised])]

\* a gather that lists the entries in the order the tasks ended
gather_AsCompleted(b) == [k \in 1..Len(b.log) |-> Entry(b.log[k].file, b.log[k].raised)]

\* asyncio.gather(*tasks, return_exceptions=True): the entries in the order of
\* the tasks handed to it
gather(b) == [i \in 1..Len(b.task) |-> b.result[i]]

\* every task has ended: the call returns the list
Gather ==
    /\ batch.phase = "running"
    /\ \A i \in 1..Len(batch.files) : batch.task[i] = "done"
    /\ batch' = [batch EXCEPT !.phase = "returned", !.returned = gather(batch)]

\* the disk maps a path to the file there: its content and modification time
EmptyDisk == <<>>

\* before any FileManager call
NoFmCall == [op |-> "none"]

\* ---- sync_directories(source, target, exclude_patterns) ----
\* a path on disk is <<root, relative path>>, root "source" or "target"
SyncPaths == {"a.py", "b.pyc", "sub/c.py"}

ExcludePatterns == {"*.pyc", "sub/*"}

\* relative_path.match(pattern)
PathMatch(rel, pattern) ==
    \/ pattern = "*.pyc" /\ rel = "b.pyc"
    \/ pattern = "sub/*" /\ rel = "sub/c.py"

FilesUnder(d, root) == { rel \in SyncPaths : <<root, rel>> \in DOMAIN d }

\* the update test with "not older" in place of "newer"
Newer_OrEqual(source_file, target_file) == source_file.mtime >= target_file.mtime

\* source_file.stat().st_mtime > target_file.stat().st_mtime
Newer(source_file, target_file) == source_file.mtime > target_file.mtime

\* sync_directories: the disk it leaves and the dict it returns.  rglob yields
\* the files in an order the file system decides; when the copy of the file
\* "fail" raises, the files in "before" have been handled already and the
\* except clause records the error, skipping the deletion of orphans.
\* shutil.copy2 copies the content and the modification time.
sync_directories(d, exclude, fail, before) ==
    LET source == FilesUnder(d, "source")
        target == FilesUnder(d, "target")
        excluded == { rel \in source : \E i \in 1..Len(exclude) : PathMatch(rel, exclude[i]) }
        to_copy == { rel \in source \ excluded : rel \notin target }
        to_update == { rel \in (source \ excluded) \cap target :
                         Newer(d[<<"source", rel>>], d[<<"target", rel>>]) }
        raised == fail \in to_copy \cup to_update
        handled == IF raised THEN before \cap ((to_copy \cup to_update) \ {fail})
                   ELSE to_copy \cup to_update
        orphans == IF raised THEN {} ELSE target \ source
        paths == (DOMAIN d \cup { <<"target", rel>> : rel \in handled })
                 \ { <<"target", rel>> : rel \in orphans }
    IN  [ disk |-> [ path \in paths |->
                       IF path[1] = "target" /\ path[2] \in handled
                       THEN d[<<"source", path[2]>>] ELSE d[path] ],
          result |-> [ copied |-> handled \cap to_copy,
                       updated |-> handled \cap to_update,
                       deleted |-> orphans,
                       errors |-> IF raised THEN <<"PermissionError">> ELSE <<>> ] ]

\* the trees a directory can hold: any of the paths, each file with a
\* modification time
Trees(root, content) ==
    UNION { [ { <<root, rel>> : rel \in S } -> [content : {content}, mtime : {1, 2}] ] :
            S \in SUBSET SyncPaths }

\* the source and target directories as the caller finds them; a source
\* without files is an empty directory or no directory at all (rglob yields
\* nothing for either)
GivenTrees ==
    /\ fm_last.op = "none"
    /\ \E source \in Trees("source", "new"), target \in Trees("target", "old") :
       \E source_exists \in IF DOMAIN source = {} THEN BOOLEAN ELSE {TRUE} :
        /\ disk' = [ path \in DOMAIN source \cup DOMAIN target |->
                       IF path[1] = "source" THEN source[path] ELSE target[path] ]
        /\ fm_last' = [op |-> "given", source_exists |-> source_exists]

\* one sync_directories call
SyncDirectories ==
    /\ fm_last.op = "given"
    /\ \E exclude \in SeqsUpTo(ExcludePatterns, 1), fail \in SyncPaths \cup {"none"} :
       \E before \in IF fail = "none" THEN {{}} ELSE SUBSET (SyncPaths \ {fail}) :
        LET r == sync_directories(disk, exclude, fail, before)
        IN  /\ disk' = r.disk
            /\ fm_last' = [ op |-> "sync_directories", before |-> disk,
                            source_exists |-> fm_last.source_exists,
                            exclude |-> exclude, result |-> r.result ]

\* ---- backup_file(path) and restore_backup(backup_path) ----
\* a file name is the sequence of its dot-separated parts ("a.tar.gz" is
\* <<"a", "tar", "gz">>; the dot of a hidden file belongs to its first part);
\* a suffix is the sequence of the parts it adds ("" is <<>>)
BackupNames == { <<"a">>, <<"a", "txt">>, <<"a", "tar", "gz">>, <<"a", "backup">>, <<".env">> }

\* Path.suffix: the last part of a name that has more than one
suffix(name) == IF Len(name) > 1 THEN <<name[Len(name)]>> ELSE <<>>

\* Path.with_suffix: the name with its suffix replaced, or added when it has none
with_suffix(name, new_suffix) ==
    (IF Len(name) > 1 THEN SubSeq(name, 1, Len(name) - 1) ELSE name) \o new_suffix

\* path.with_suffix(backup_suffix), which drops the file's own suffix
BackupPath_DropSuffix(path) == with_suffix(path, <<"backup">>)

\* backup_file: path.with_suffix(path.suffix + ".backup")
BackupPath(path) == with_suffix(path, suffix(path) \o <<"backup">>)

\* shutil.copy2(src, dst) on the disk d
copy_file(d, src, dst) ==
    [ name \in DOMAIN d \cup {dst} |-> IF name = dst THEN d[src] ELSE d[name] ]

\* backup_file: the disk it leaves (the copy is made if the file exists)
backup_file(d, path) ==
    IF path \in DOMAIN d THEN copy_file(d, path, BackupPath(path)) ELSE d

\* restore_backup: backup_path.with_suffix(backup_path.suffix.replace(".backup", ""))
OriginalPath(backup_path) ==
    with_suffix(backup_path, SelectSeq(suffix(backup_path), LAMBDA part : part # "backup"))

\* restore_backup raises: shutil.copy2 of a file onto itself (SameFileError)
RestoreRaises(d, backup_path) ==
    backup_path \in DOMAIN d /\ OriginalPath(backup_path) = backup_path

\* restore_backup: the disk it leaves (copy back and unlink, if the backup exists)
restore_backup(d, backup_path) ==
    IF backup_path \in DOMAIN d /\ ~RestoreRaises(d, backup_path)
    THEN LET copied == copy_file(d, backup_path, OriginalPath(backup_path))
         IN  [ name \in DOMAIN copied \ {backup_path} |-> copied[name] ]
    ELSE d

\* the files of the directory as the caller finds them
GivenFiles ==
    /\ fm_last.op = "none"
    /\ \E names \in SUBSET BackupNames :
       \E files \in [names -> {"v1", "v2"}] :
        /\ disk' = files
        /\ fm_last' = [op |-> "given"]

BackupFile ==
    /\ fm_last.op = "given"
    /\ \E path \in BackupNames :
        /\ disk' = backup_file(disk, path)
        /\ fm_last' = [ op |-> "backup_file", path |-> path,
                        existed |-> path \in DOMAIN disk,
                        saved |-> IF path \in DOMAIN disk THEN disk[path] ELSE "",
                        returned |-> BackupPath(path), modified |-> "" ]

\* the caller modifies the file it backed up: new content, or the file removed
ModifyFile ==
    /\ fm_last.op = "backup_file"
    /\ fm_last.modified = ""
    /\ \E change \in {"v1", "v2", "v3", "removed"} :
        /\ disk' = IF change = "removed"
                   THEN [ name \in DOMAIN disk \ {fm_last.path} |-> disk[name] ]
                   ELSE [ name \in DOMAIN disk \cup {fm_last.path} |->
                            IF name = fm_last.path THEN change ELSE disk[name] ]
        /\ fm_last' = [fm_last EXCEPT !.modified = change]

\* restore_backup on the path backup_file returned
RestoreBackup ==
    /\ fm_last.op = "backup_file"
    /\ disk' = restore_backup(disk, fm_last.returned)
    /\ fm_last' = [ op |-> "restore_backup", path |-> fm_last.path,
                    existed |-> fm_last.existed, saved |-> fm_last.saved,
                    backup_path |-> fm_last.returned,
                    modified |-> fm_last.modified,
                    raised |-> RestoreRaises(disk, fm_last.returned),
                    returned |-> OriginalPath(fm_last.returned) ]

\* backup_file with a backup_suffix of the caller's
BackupSuffixes == { <<"backup">>, <<"bak">>, <<"backup", "old">> }

\* path.with_suffix(path.suffix + backup_suffix)
BackupPathWith(path, backup_suffix) == with_suffix(path, suffix(path) \o backup_suffix)

backup_file_with(d, path, backup_suffix) ==
    IF path \in DOMAIN d THEN copy_file(d, path, BackupPathWith(path, backup_suffix)) ELSE d

BackupFileWithSuffix ==
    /\ fm_last.op = "given"
    /\ \E path \in BackupNames, backup_suffix \in BackupSuffixes :
        /\ disk' = backup_file_with(disk, path, backup_suffix)
        /\ fm_last' = [ op |-> "backup_file", path |-> path,
                        existed |-> path \in DOMAIN disk,
                        saved |-> IF path \in DOMAIN disk THEN disk[path] ELSE "",
                        returned |-> BackupPathWith(path, backup_suffix), modified |-> "" ]

\* ---- create_archive(source_dir, archive_path, format) and ----
\* ---- extract_archive(archive_path, extract_to)              ----
\* a path is the sequence of its components; the archived directory is
\* "proj", the directory extracted into is "out"; a regular file is
\* [content |-> c], an archive file [container |-> k, members |-> m] with m
\* mapping a member's path to its content
ArchivedPaths == { <<"file1.txt">>, <<"file2.txt">>, <<"sub", "file3.txt">> }

ArchiveFormats == {"zip", "tar", "tar.gz", "tgz", "rar"}

\* the file names an archive is given, as dot-separated parts
ArchiveNames ==
    { <<"proj", "zip">>, <<"proj", "tar">>, <<"proj", "tar", "gz">>,
      <<"proj", "tgz">>, <<"proj", "bak">> }

RECURSIVE JoinDots(_)
JoinDots(parts) ==
    IF Len(parts) = 1 THEN parts[1]
    ELSE parts[1] \o "." \o JoinDots(Tail(parts))

\* the files below a directory, by their path relative to it
FilesBelow(d, dir) ==
    { rel \in ArchivedPaths \cup { <<"proj">> \o r : r \in ArchivedPaths } :
        dir \o rel \in DOMAIN d }

\* a tar member named by the path relative to the archived directory
TarArcname_Relative(source_name, rel) == rel

\* tarf.add(source_dir, arcname=source_dir.name): a member's name starts with
\* the name of the archived directory
TarArcname(source_name, rel) == <<source_name>> \o rel

\* create_archive: how it ends and the archive file it leaves
create_archive(d, source_dir, format) ==
    LET files == FilesBelow(d, source_dir)
        name == source_dir[Len(source_dir)]
    IN  IF format = "zip"
        THEN [ outcome |-> "returned",
               archive |-> [ container |-> "zip",
                             members |-> [ rel \in files |-> d[source_dir \o rel].content ] ] ]
        ELSE IF format \in {"tar", "tar.gz", "tgz"}
        THEN [ outcome |-> "returned",
               archive |-> [ container |-> IF format = "tar" THEN "tar" ELSE "tar:gz",
                             members |-> [ member \in { TarArcname(name, rel) : rel \in files } |->
                                             LET rel == CHOOSE r \in files : TarArcname(name, r) = member
                                             IN  d[source_dir \o rel].content ] ] ]
        ELSE [ outcome |-> "ValueError", archive |-> [container |-> "none", members |-> <<>>] ]

\* extract_archive: the format is chosen by the last suffix of the archive's
\* name; zipfile and tarfile refuse a file of the other kind; tarfile mode
\* "r:*" reads a compressed and an uncompressed tar alike
extract_archive(d, archive_name, extract_to) ==
    LET archive == d[<<JoinDots(archive_name)>>]
        opens == IF suffix(archive_name) = <<"zip">> THEN archive.container = "zip"
                 ELSE archive.container \in {"tar", "tar:gz"}
        members == DOMAIN archive.members
    IN  IF suffix(archive_name) \notin {<<"zip">>, <<"tar">>, <<"gz">>, <<"tgz">>}
        THEN [outcome |-> "ValueError", disk |-> d]
        ELSE IF ~opens
        THEN [ outcome |-> IF suffix(archive_name) = <<"zip">> THEN "BadZipFile"
                           ELSE "ReadError",
               disk |-> d ]
        ELSE [ outcome |-> "returned",
               disk |-> [ path \in DOMAIN d \cup { extract_to \o m : m \in members } |->
                            IF path \in DOMAIN d THEN d[path]
                            ELSE LET m == CHOOSE x \in members : extract_to \o x = path
                                 IN  [content |-> archive.members[m]] ] ]

\* the directory to archive, as the caller finds it
GivenDirectory ==
    /\ fm_last.op = "none"
    /\ \E rels \in SUBSET ArchivedPaths :
       \E tree \in [ { <<"proj">> \o rel : rel \in rels } -> [content : {"x", "y"}] ] :
        /\ disk' = tree
        /\ fm_last' = [op |-> "given"]

CreateArchive ==
    /\ fm_last.op = "given"
    /\ \E format \in ArchiveFormats, archive_name \in ArchiveNames :
        LET r == create_archive(disk, <<"proj">>, format)
            archive_path == <<JoinDots(archive_name)>>
        IN  /\ disk' = IF r.outcome = "returned"
                       THEN [ path \in DOMAIN disk \cup {archive_path} |->
                                IF path = archive_path THEN r.archive ELSE disk[path] ]
                       ELSE disk
            /\ fm_last' = [ op |-> "create_archive", format |-> format,
                            archive_name |-> archive_name, outcome |-> r.outcome ]

\* extract_archive of the archive just created, into a new directory
ExtractArchive ==
    /\ fm_last.op = "create_archive"
    /\ fm_last.outcome = "returned"
    /\ LET r == extract_archive(disk, fm_last.archive_name, <<"out">>)
       IN  /\ disk' = r.disk
           /\ fm_last' = [ op |-> "extract_archive", format |-> fm_last.format,
                           archive_name |-> fm_last.archive_name,
                           outcome |-> r.outcome ]

\* ---- write_file / read_file and write_json / read_json ----
\* a text is a sequence of characters; "LF" and "CR" stand for the line feed
\* and the carriage return.  Both functions open the file in text mode with
\* the default newline argument, so Python translates line endings: on
\* writing, each line feed becomes os.linesep; on reading, a carriage return
\* with or without a following line feed becomes one line feed.
ContentChars == {"a", "LF", "CR"}

Contents == SeqsUpTo(ContentChars, MaxContentLen)

\* os.linesep
linesep(platform) == IF platform = "nt" THEN <<"CR", "LF">> ELSE <<"LF">>

\* f.write(content) in text mode: what reaches the disk
RECURSIVE TextWrite(_, _)
TextWrite(content, platform) ==
    IF content = <<>> THEN <<>>
    ELSE (IF Head(content) = "LF" THEN linesep(platform) ELSE <<Head(content)>>)
         \o TextWrite(Tail(content), platform)

\* f.read() in text mode: what the caller gets for what is on disk
RECURSIVE TextRead(_)
TextRead(stored) ==
    IF stored = <<>> THEN <<>>
    ELSE IF Head(stored) = "CR"
    THEN <<"LF">> \o TextRead(IF Len(stored) > 1 /\ stored[2] = "LF"
                              THEN Tail(Tail(stored)) ELSE Tail(stored))
    ELSE <<Head(stored)>> \o TextRead(Tail(stored))

\* write_file: the disk it leaves
write_file(d, path, content, platform) ==
    [ p \in DOMAIN d \cup {path} |->
        IF p = path THEN TextWrite(content, platform) ELSE d[p] ]

\* read_file
read_file(d, path) == TextRead(d[path])

\* json.dumps(data, indent=2, ensure_ascii=False) of the dict {"k": value}:
\* an indented text whose string literal escapes the control characters
json_dumps(value) ==
    <<"{", "LF", " ", " ", "k", ":", " ", "QUOTE">>
    \o [ i \in 1..Len(value) |->
           CASE value[i] = "LF" -> "BACKSLASH-n"
             [] value[i] = "CR" -> "BACKSLASH-r"
             [] OTHER -> value[i] ]
    \o <<"QUOTE", "LF", "}">>

\* json.loads of such a text: white space between the tokens is skipped and
\* the escapes of the string literal are decoded
json_loads(text) ==
    LET tokens == SelectSeq(text, LAMBDA c : c \notin {" ", "LF", "CR"})
        literal == SubSeq(tokens, 5, Len(tokens) - 2)
    IN  [ i \in 1..Len(literal) |->
            CASE literal[i] = "BACKSLASH-n" -> "LF"
              [] literal[i] = "BACKSLASH-r" -> "CR"
              [] OTHER -> literal[i] ]

IOPath == <<"out.txt">>

WriteFile ==
    /\ fm_last.op = "none"
    /\ \E content \in Contents, platform \in {"posix", "nt"} :
        /\ disk' = write_file(disk, IOPath, content, platform)
        /\ fm_last' = [ op |-> "write_file", written |-> content,
                        platform |-> platform, returned |-> <<>> ]

ReadFile ==
    /\ fm_last.op = "write_file"
    /\ fm_last' = [fm_last EXCEPT !.op = "read_file", !.returned = read_file(disk, IOPath)]
    /\ UNCHANGED disk

\* write_json of the dict {"k": value}
WriteJson ==
    /\ fm_last.op = "none"
    /\ \E value \in Contents, platform \in {"posix", "nt"} :
        /\ disk' = write_file(disk, IOPath, json_dumps(value), platform)
        /\ fm_last' = [ op |-> "write_json", written |-> value,
                        platform |-> platform, returned |-> <<>> ]

ReadJson ==
    /\ fm_last.op = "write_json"
    /\ fm_last' = [fm_last EXCEPT !.op = "read_json",
                                  !.returned = json_loads(read_file(disk, IOPath))]
    /\ UNCHANGED disk

(***************************************************************************)
(* OllamaClient.generate_stream (text2api/llm/ollama_client.py)            *)
(*                                                                         *)
(* The server sends lines; the generator reads them one at a time.  A line *)
(* is blank, or text that is not JSON, or a JSON object that may hold a    *)
(* "response" and a "done" member.                                         *)
(***************************************************************************)
BlankLine == [kind |-> "blank", has_response |-> FALSE, response |-> "", done |-> FALSE]
MalformedLine == [kind |-> "malformed", has_response |-> FALSE, response |-> "", done |-> FALSE]
ObjectLine(has_response, response, done) ==
    [kind |-> "object", has_response |-> has_response, response |-> response, done |-> done]

StreamLines ==
    {BlankLine, MalformedLine}
    \cup { ObjectLine(FALSE, "", done) : done \in BOOLEAN }
    \cup { ObjectLine(TRUE, r, done) : r \in {"x", "y"}, done \in BOOLEAN }

\* the loop body that goes on reading after a line marked done
ReadLine_NoBreak(line) ==
    IF line.kind # "object" THEN [yields |-> <<>>, stop |-> FALSE]
    ELSE [ yields |-> IF line.has_response THEN <<line.response>> ELSE <<>>,
           stop |-> FALSE ]

\* the body of "async for line in response.aiter_lines()": what it yields for
\* a line and whether it leaves the loop
ReadLine(line) ==
    IF line.kind = "blank" THEN [yields |-> <<>>, stop |-> FALSE]
    ELSE IF line.kind = "malformed" THEN [yields |-> <<>>, stop |-> FALSE]
    ELSE [ yields |-> IF line.has_response THEN <<line.response>> ELSE <<>>,
           stop |-> line.done ]

\* before generate_stream is called
NoStream == [phase |-> "none", lines |-> <<>>, read |-> 0, yielded |-> <<>>]

\* generate_stream is called; the server will send these lines
StreamOpen ==
    /\ stream.phase = "none"
    /\ \E lines \in SeqsUpTo(StreamLines, MaxLines) :
        stream' = [phase |-> "open", lines |-> lines, read |-> 0, yielded |-> <<>>]

\* the generator reads the next line
StreamRead ==
    /\ stream.phase = "open"
    /\ stream.read < Len(stream.lines)
    /\ LET r == ReadLine(stream.lines[stream.read + 1])
       IN  stream' = [stream EXCEPT !.read = @ + 1,
                                    !.yielded = @ \o r.yields,
                                    !.phase = IF r.stop THEN "ended" ELSE "open"]

\* the server closes the response: the loop ends
StreamEnd ==
    /\ stream.phase = "open"
    /\ stream.read = Len(stream.lines)
    /\ stream' = [stream EXCEPT !.phase = "ended"]

\* the connection fails while the generator waits for a line: httpx.HTTPError
\* is re-raised as Exception
StreamFails ==
    /\ stream.phase = "open"
    /\ stream.read < Len(stream.lines)
    /\ stream' = [stream EXCEPT !.phase = "raised"]

(***************************************************************************)
(* Generated gRPC server (text2api/generators/grpc_gen.py)                 *)
(***************************************************************************)
\* The server template renders, for every model of the spec, the methods
\* Create<Model>, Get<Model>, List<Model>s, Update<Model> and Delete<Model>
\* of one servicer class; __init__ creates one dict, self.db, for all of them.
\* serve() runs the servicer on a thread pool, so calls interleave: between
\* a Create's "item_id = str(len(self.db) + 1)" and its
\* "self.db[item_id] = item_dict" another call may run.  The other methods
\* are taken as one step each.
GrpcModels == {"User", "Order"}

\* the field names the template renders for a model
GrpcFields(model) == IF model = "User" THEN {"name"} ELSE {"name", "total"}

\* a stored item_dict: the model whose Create made it and the keys it holds
Item(origin, model) == [origin |-> origin, fields |-> GrpcFields(model)]

IdleWorker == [pc |-> "idle", model |-> "", item_id |-> 0]

NoGrpcCall == [op |-> "none", model |-> "", ok |-> FALSE, touched |-> {}]

\* the servicer as __init__ leaves it: self.db = {}
NewServicer ==
    [ db |-> <<>>, workers |-> [t \in 1..MaxWorkers |-> IdleWorker],
      created |-> <<>>, calls |-> 0, overlapped |-> FALSE, removed |-> 0,
      last |-> NoGrpcCall ]

\* item_id = str(len(self.db) + 1)
NextId(g) == Cardinality(DOMAIN g.db) + 1

\* the items whose keys include every field the model's methods read
Readable(g, model) == { id \in DOMAIN g.db : GrpcFields(model) \subseteq g.db[id].fields }

\* Create<Model>, first part: the id is computed
GrpcCreateBegin ==
    /\ grpc.calls < MaxCalls
    /\ \E t \in 1..MaxWorkers, model \in GrpcModels :
        /\ grpc.workers[t].pc = "idle"
        /\ grpc' = [grpc EXCEPT
              !.workers[t] = [pc |-> "store", model |-> model, item_id |-> NextId(grpc)],
              !.calls = @ + 1,
              !.overlapped = @ \/ \E u \in 1..MaxWorkers : grpc.workers[u].pc = "store"]

\* Create<Model>, second part: the item is stored under the id and returned
GrpcCreateStore ==
    \E t \in 1..MaxWorkers :
        /\ grpc.workers[t].pc = "store"
        /\ LET w == grpc.workers[t]
           IN  grpc' = [grpc EXCEPT
                 !.db = [ id \in DOMAIN grpc.db \cup {w.item_id} |->
                            IF id = w.item_id THEN Item(w.model, w.model) ELSE grpc.db[id] ],
                 !.workers[t] = IdleWorker,
                 !.created = Append(@, [id |-> w.item_id, model |-> w.model,
                                        replaced |-> w.item_id \in DOMAIN grpc.db]),
                 !.last = [op |-> "Create", model |-> w.model, ok |-> TRUE, touched |-> {}]]

\* Get<Model>: NOT_FOUND for an unknown id; reading a field the item lacks
\* raises KeyError, which the except clause answers with success=False
GrpcGet ==
    /\ grpc.calls < MaxCalls
    /\ \E model \in GrpcModels, id \in 1..MaxCalls :
        grpc' = [grpc EXCEPT
            !.calls = @ + 1,
            !.last = IF id \in Readable(grpc, model)
                     THEN [op |-> "Get", model |-> model, ok |-> TRUE,
                           touched |-> {grpc.db[id].origin}]
                     ELSE [op |-> "Get", model |-> model, ok |-> FALSE, touched |-> {}]]

\* List<Model>s: every item of self.db is rendered as a <Model>; one item
\* lacking a field makes the call answer with an empty list
GrpcList ==
    /\ grpc.calls < MaxCalls
    /\ \E model \in GrpcModels :
        grpc' = [grpc EXCEPT
            !.calls = @ + 1,
            !.last = IF Readable(grpc, model) = DOMAIN grpc.db
                     THEN [op |-> "List", model |-> model, ok |-> TRUE,
                           touched |-> { grpc.db[id].origin : id \in DOMAIN grpc.db }]
                     ELSE [op |-> "List", model |-> model, ok |-> FALSE, touched |-> {}]]

\* Update<Model>: the item under the id is replaced by one with the model's fields
GrpcUpdate ==
    /\ grpc.calls < MaxCalls
    /\ \E model \in GrpcModels, id \in 1..MaxCalls :
        IF id \in DOMAIN grpc.db
        THEN grpc' = [grpc EXCEPT
                !.calls = @ + 1,
                !.db[id] = Item(grpc.db[id].origin, model),
                !.last = [op |-> "Update", model |-> model, ok |-> TRUE,
                          touched |-> {grpc.db[id].origin}]]
        ELSE grpc' = [grpc EXCEPT
                !.calls = @ + 1,
                !.last = [op |-> "Update", model |-> model, ok |-> FALSE, touched |-> {}]]

\* Delete<Model>: del self.db[item_id]
GrpcDelete ==
    /\ grpc.calls < MaxCalls
    /\ \E model \in GrpcModels, id \in 1..MaxCalls :
        IF id \in DOMAIN grpc.db
        THEN grpc' = [grpc EXCEPT
                !.calls = @ + 1,
                !.db = [ other \in DOMAIN grpc.db \ {id} |-> grpc.db[other] ],
                !.removed = @ + 1,
                !.last = [op |-> "Delete", model |-> model, ok |-> TRUE,
                          touched |-> {grpc.db[id].origin}]]
        ELSE grpc' = [grpc EXCEPT
                !.calls = @ + 1,
                !.last = [op |-> "Delete", model |-> model, ok |-> FALSE, touched |-> {}]]

(***************************************************************************)
(* DockerManager.generate_docker_compose (text2api/utils/docker_utils.py)  *)
(***************************************************************************)
\* A name is a sequence of characters.  The compose document is the dict the
\* code builds: its services by key and its top-level volumes; yaml.dump
\* writes every key of it.
ComposeNames == { <<"d", "b">>, <<"r", "e", "d", "i", "s">>, <<"a", "_", "b">>, <<"d", "_", "b">> }

ComposeFrameworks == {"fastapi", "flask", "graphene", "grpc", "websockets", "click", "django"}

\* descriptions: the words they hold
ComposeDescriptions == { {"shop"}, {"shop", "cache"}, {"redis"} }

ComposeSpecs ==
    [ name : ComposeNames, description : ComposeDescriptions,
      framework : ComposeFrameworks, database_required : BOOLEAN ]

DbKey == <<"d", "b">>
RedisKey == <<"r", "e", "d", "i", "s">>

\* api_spec.name.replace("_", "-")
ServiceName(name) == [i \in 1..Len(name) |-> IF name[i] = "_" THEN "-" ELSE name[i]]

\* port_mapping.get(framework, "8000:8000")
PortMapping(framework) ==
    CASE framework = "fastapi"    -> "8000:8000"
      [] framework = "flask"      -> "5000:5000"
      [] framework = "graphene"   -> "8000:8000"
      [] framework = "grpc"       -> "50051:50051"
      [] framework = "websockets" -> "8765:8765"
      [] OTHER                    -> "8000:8000"

AppService(api_spec) ==
    [ build |-> TRUE, image |-> "",
      ports |-> IF api_spec.framework # "click" THEN PortMapping(api_spec.framework) ELSE "",
      has_depends_on |-> FALSE, depends_on |-> <<>> ]

\* compose["services"][key] = value
SetService(doc, key, value) ==
    [doc EXCEPT !.services = [ k \in DOMAIN doc.services \cup {key} |->
                                 IF k = key THEN value ELSE doc.services[k] ]]

\* the database block run whatever database_required says
AddDatabase_Always(api_spec, doc) ==
    LET service_name == ServiceName(api_spec.name)
        app == [doc.services[service_name] EXCEPT !.has_depends_on = TRUE,
                                                  !.depends_on = <<DbKey>>]
        db == [ build |-> FALSE, image |-> "postgres:15", ports |-> "5432:5432",
                has_depends_on |-> FALSE, depends_on |-> <<>> ]
    IN  [SetService(SetService(doc, service_name, app), DbKey, db)
            EXCEPT !.volumes = {"postgres_data"}]

\* if api_spec.database_required: depends_on and DATABASE_URL on the
\* application's service, the db service, the postgres_data volume
AddDatabase(api_spec, doc) ==
    IF api_spec.database_required THEN AddDatabase_Always(api_spec, doc) ELSE doc

\* if the description holds cache, session or redis: the redis service
AddRedis(api_spec, doc) ==
    IF api_spec.description \cap {"cache", "session", "redis"} # {}
    THEN LET service_name == ServiceName(api_spec.name)
             old == doc.services[service_name]
             app == [old EXCEPT !.has_depends_on = TRUE,
                                !.depends_on = Append(old.depends_on, RedisKey)]
             redis == [ build |-> FALSE, image |-> "redis:7-alpine", ports |-> "6379:6379",
                        has_depends_on |-> FALSE, depends_on |-> <<>> ]
         IN  SetService(SetService(doc, service_name, app), RedisKey, redis)
    ELSE doc

generate_docker_compose(api_spec) ==
    LET service_name == ServiceName(api_spec.name)
        compose0 == [ services |-> [ k \in {service_name} |-> AppService(api_spec) ],
                      volumes |-> {} ]
    IN  AddRedis(api_spec, AddDatabase(api_spec, compose0))

NoCompose ==
    [ called |-> FALSE,
      api_spec |-> [name |-> <<>>, description |-> {}, framework |-> "", database_required |-> FALSE],
      output |-> [services |-> <<>>, volumes |-> {}] ]

GenerateDockerCompose ==
    /\ ~compose.called
    /\ \E api_spec \in ComposeSpecs :
        compose' = [called |-> TRUE, api_spec |-> api_spec,
                    output |-> generate_docker_compose(api_spec)]

(***************************************************************************)
(* Specifications, one per component                                       *)
(***************************************************************************)
\* every component as its constructor leaves it: an OpenAPI generator on an
\* empty output directory, and the MCP integration in the given state
Init(mcp0) ==
    /\ an_text = <<>>
    /\ an_llm = NoLlmCall
    /\ an_result = NotAnalyzed
    /\ orch = NotGenerated
    /\ oc = NoRequest
    /\ gen = NewGen("openapi")
    /\ fs = {}
    /\ gen_last = NoCall
    /\ mcp = mcp0
    /\ mcp_spec = EmptyApiSpec
    /\ mcp_last = NoEnhance
    /\ cli = NoCommand
    /\ batch = NoBatch
    /\ disk = EmptyDisk
    /\ fm_last = NoFmCall
    /\ stream = NoStream
    /\ grpc = NewServicer
    /\ compose = NoCompose
    /\ pat = NoPatterns
    /\ crud = NoCrud

AnalyzerNext == AnalyzeText /\ UNCHANGED <<orchVars, ollamaVars, genVars, mcpVars, cliVars, batchVars, fmVars,
                streamVars, grpcVars, composeVars, pureVars>>

SpecAnalyzer ==
    /\ Init(McpDisabled)
    /\ [][AnalyzerNext]_vars

OrchNext == Generate /\ UNCHANGED <<analyzerVars, ollamaVars, genVars, mcpVars, cliVars, batchVars, fmVars,
                streamVars, grpcVars, composeVars, pureVars>>

SpecOrchestrator ==
    /\ Init(McpDisabled)
    /\ [][OrchNext]_vars

OllamaNext ==
    AnalyzeApiRequirements
    /\ UNCHANGED <<analyzerVars, orchVars, genVars, mcpVars, cliVars, batchVars, fmVars,
                streamVars, grpcVars, composeVars, pureVars>>

SpecOllama ==
    /\ Init(McpDisabled)
    /\ [][OllamaNext]_vars

GenFrame ==
    UNCHANGED <<analyzerVars, orchVars, ollamaVars, mcpVars, cliVars, batchVars, fmVars,
                streamVars, grpcVars, composeVars, pureVars>>

GenNext ==
    \/ NewGenerator /\ GenFrame
    \/ SetProjectName /\ GenFrame
    \/ SetApiSpec /\ GenFrame
    \/ PrepareGenerator /\ GenFrame
    \/ EnsureOutputDir /\ GenFrame
    \/ GeneratorGenerate /\ GenFrame

SpecGenerators ==
    /\ Init(McpDisabled)
    /\ [][GenNext]_vars

McpFrame ==
    UNCHANGED <<analyzerVars, orchVars, ollamaVars, genVars, cliVars, batchVars, fmVars,
                streamVars, grpcVars, composeVars, pureVars>>

McpNext ==
    \/ Initialize /\ McpFrame
    \/ EnhanceSpec /\ McpFrame

SpecMcpEnabled ==
    /\ Init(McpEnabled)
    /\ [][McpNext]_vars

\* the MCP integration as its constructor leaves it
SpecMcp ==
    /\ Init(McpDisabled)
    /\ [][McpNext]_vars

\* the variables of the components above
earlierVars ==
    <<analyzerVars, orchVars, ollamaVars, genVars, mcpVars, cliVars, batchVars, fmVars>>

StreamFrame == UNCHANGED <<earlierVars, grpcVars, composeVars, pureVars>>

StreamNext ==
    \/ StreamOpen /\ StreamFrame
    \/ StreamRead /\ StreamFrame
    \/ StreamEnd /\ StreamFrame
    \/ StreamFails /\ StreamFrame

SpecStream ==
    /\ Init(McpDisabled)
    /\ [][StreamNext]_vars

PatternsNext == AnalyzePatterns /\ UNCHANGED <<earlierVars, streamVars, grpcVars, composeVars, crud>>

SpecPatterns ==
    /\ Init(McpDisabled)
    /\ [][PatternsNext]_vars

CrudNext == GenerateCrudEndpoints /\ UNCHANGED <<earlierVars, streamVars, grpcVars, composeVars, pat>>

SpecCrud ==
    /\ Init(McpDisabled)
    /\ [][CrudNext]_vars

ComposeNext == GenerateDockerCompose /\ UNCHANGED <<earlierVars, streamVars, grpcVars, pureVars>>

SpecCompose ==
    /\ Init(McpDisabled)
    /\ [][ComposeNext]_vars

GrpcFrame == UNCHANGED <<earlierVars, streamVars, composeVars, pureVars>>

GrpcNext ==
    \/ GrpcCreateBegin /\ GrpcFrame
    \/ GrpcCreateStore /\ GrpcFrame
    \/ GrpcGet /\ GrpcFrame
    \/ GrpcList /\ GrpcFrame
    \/ GrpcUpdate /\ GrpcFrame
    \/ GrpcDelete /\ GrpcFrame

SpecGrpc ==
    /\ Init(McpDisabled)
    /\ [][GrpcNext]_vars

SyncFrame ==
    UNCHANGED <<analyzerVars, orchVars, ollamaVars, genVars, mcpVars, cliVars, batchVars,
                streamVars, grpcVars, composeVars, pureVars>>

SyncNext ==
    \/ GivenTrees /\ SyncFrame
    \/ SyncDirectories /\ SyncFrame

SpecSync ==
    /\ Init(McpDisabled)
    /\ [][SyncNext]_vars

BackupNext ==
    \/ GivenFiles /\ SyncFrame
    \/ BackupFile /\ SyncFrame
    \/ ModifyFile /\ SyncFrame
    \/ RestoreBackup /\ SyncFrame

SpecBackup ==
    /\ Init(McpDisabled)
    /\ [][BackupNext]_vars

BackupSuffixNext ==
    \/ GivenFiles /\ SyncFrame
    \/ BackupFileWithSuffix /\ SyncFrame
    \/ ModifyFile /\ SyncFrame
    \/ RestoreBackup /\ SyncFrame

SpecBackupSuffix ==
    /\ Init(McpDisabled)
    /\ [][BackupSuffixNext]_vars

ArchiveNext ==
    \/ GivenDirectory /\ SyncFrame
    \/ CreateArchive /\ SyncFrame
    \/ ExtractArchive /\ SyncFrame

SpecArchive ==
    /\ Init(McpDisabled)
    /\ [][ArchiveNext]_vars

FileIONext ==
    \/ WriteFile /\ SyncFrame
    \/ ReadFile /\ SyncFrame
    \/ WriteJson /\ SyncFrame
    \/ ReadJson /\ SyncFrame

SpecFileIO ==
    /\ Init(McpDisabled)
    /\ [][FileIONext]_vars

BatchFrame ==
    UNCHANGED <<analyzerVars, orchVars, ollamaVars, genVars, mcpVars, cliVars, fmVars,
                streamVars, grpcVars, composeVars, pureVars>>

BatchNext ==
    \/ BatchStart /\ BatchFrame
    \/ Acquire /\ BatchFrame
    \/ Finish /\ BatchFrame
    \/ Gather /\ BatchFrame

SpecBatch ==
    /\ Init(McpDisabled)
    /\ [][BatchNext]_vars

CliFrame ==
    UNCHANGED <<analyzerVars, orchVars, ollamaVars, gen, gen_last, mcpVars,
                batchVars, fmVars,
                streamVars, grpcVars, composeVars, pureVars>>

CliNext ==
    \/ FlatGenerate /\ CliFrame
    \/ GroupedGenerate /\ CliFrame

SpecCli ==
    /\ Init(McpDisabled)
    /\ [][CliNext]_vars

(***************************************************************************)
(* Properties of TextAnalyzer.analyze_text (SpecAnalyzer)                  *)
(***************************************************************************)
\* C1: for every text and every outcome of the LLM call (an exception, a
\* response that is not JSON, JSON of any shape and values), analyze_text
\* returns an ApiSpec and never raises.
C1_AnalyzeTextNeverRaises == an_result.outcome # "raised"

\* C2: whenever the LLM call of analyze_text fails (it raises, or its response
\* is not JSON), analyze_text returns an ApiSpec with a non-empty name and
\* api_type rest, whatever API-type keywords the text contains.
C2_FallbackNameAndType ==
    (an_result.outcome # "none" /\ LlmFailed(an_llm)) =>
        /\ an_result.outcome = "returned"
        /\ an_result.spec.name # <<>>
        /\ an_result.spec.api_type = "rest"

\* the LLM call failed on a text that has a GraphQL keyword and whose first
\* sentence has no name word
C2_Witness ==
    /\ an_result.outcome = "returned"
    /\ an_llm.kind = "not_json"
    /\ an_text = <<"api", ".", "graphql">>
    /\ an_result.spec.name = GeneratedApiName

(***************************************************************************)
(* Properties of APIGenerator.generate (SpecOrchestrator)                  *)
(***************************************************************************)
\* the description is empty, whitespace-only or has fewer than 3 words
Rejected(description) ==
    \/ description = <<>>
    \/ \A i \in 1..Len(description) : description[i] = " "
    \/ WordCount(description) < 3

\* C3: APIGenerator.generate never raises; its result is an error made before
\* any LLM call when the description is empty, whitespace-only or shorter than
\* 3 words; an error embedding the LLM's message when an LLM is configured and
\* its call fails; a success otherwise, labelled template-only exactly when no
\* LLM is configured.
C3_GenerateStatus ==
    orch.called =>
        /\ orch.result.outcome = "returned"
        /\ IF Rejected(orch.description)
           THEN /\ orch.result.status = "error"
                /\ orch.result.llm_calls = 0
           ELSE IF orch.configured /\ orch.llm_error # ""
           THEN /\ orch.result.status = "error"
                /\ orch.result.error =
                       "Failed to generate API with Ollama: " \o orch.llm_error
           ELSE /\ orch.result.status = "success"
                /\ orch.result.error = ""
                /\ (orch.result.message =
                        "Basic API template generated (Ollama not configured)")
                   <=> ~orch.configured

\* a three-word description, an LLM configured, and its call failing
C3_Witness ==
    /\ orch.called
    /\ orch.description = <<"a", " ", "a", " ", "a">>
    /\ orch.configured
    /\ orch.llm_error = "Blad komunikacji z Ollama"
    /\ orch.result.status = "error"

(***************************************************************************)
(* Properties of OllamaClient.analyze_api_requirements (SpecOllama)        *)
(***************************************************************************)
\* the requests made before the i-th
Before(i) == SubSeq(oc.calls, 1, i - 1)

\* a model was ensured among the calls: a listing found it, or its pull succeeded
EnsuredIn(calls, model) ==
    \E i \in 1..Len(calls) :
        /\ calls[i].model = model
        /\ \/ calls[i].op = "list" /\ calls[i].found
           \/ calls[i].op = "pull" /\ calls[i].ok

\* the client tried to ensure the model: it asked for the listing on its behalf
Tried(model) ==
    \E i \in 1..Len(oc.calls) : oc.calls[i].op = "list" /\ oc.calls[i].model = model

\* a model-listing request failed
ListingFailed ==
    \E i \in 1..Len(oc.calls) : oc.calls[i].op = "list" /\ ~oc.calls[i].ok

\* the 8b model is tried first, the 7b model only if the 8b model could not be
\* ensured, and generate is called only after a model was ensured, with it
EnsureOrder ==
    /\ oc.calls[1].op = "list" /\ oc.calls[1].model = Model8b
    /\ Tried(Model7b) => ~EnsuredIn(oc.calls, Model8b)
    /\ \A i \in 1..Len(oc.calls) :
          oc.calls[i].op = "generate" =>
              /\ EnsuredIn(Before(i), oc.calls[i].model)
              /\ \A m \in {Model8b, Model7b} :
                    EnsuredIn(Before(i), m) => m = oc.calls[i].model

NoModelRaised == oc.outcome = "raised" /\ oc.error = NoModelError

\* C4 as stated: for every combination of outcomes of the listing and pull
\* requests, the 8b model is tried first, the 7b model only if the 8b model
\* could not be ensured, the "no model available" error is raised exactly when
\* neither could be ensured, and generate is called only after a model was
\* ensured and with that model.
C4_AsStated ==
    oc.outcome # "none" =>
        /\ EnsureOrder
        /\ NoModelRaised <=> (~EnsuredIn(oc.calls, Model8b)
                              /\ ~EnsuredIn(oc.calls, Model7b))

\* C4, amended: the order holds for every combination of outcomes; when every
\* listing request made succeeds, the 7b model is tried exactly when the 8b
\* model could not be ensured and the "no model available" error is raised
\* exactly when neither could be ensured; when a listing request fails, the
\* call ends at that request with the listing error: no pull of that model, no
\* further model, no generate.
C4_EnsureModels ==
    oc.outcome # "none" =>
        /\ EnsureOrder
        /\ ~ListingFailed =>
              /\ Tried(Model7b) <=> ~EnsuredIn(oc.calls, Model8b)
              /\ NoModelRaised <=> (~EnsuredIn(oc.calls, Model8b)
                                    /\ ~EnsuredIn(oc.calls, Model7b))
        /\ ListingFailed =>
              /\ oc.outcome = "raised" /\ oc.error = ListingError
              /\ oc.calls[Len(oc.calls)].op = "list"
              /\ ~oc.calls[Len(oc.calls)].ok
              /\ \A i \in 1..(Len(oc.calls) - 1) :
                    oc.calls[i].op = "list" => oc.calls[i].ok

\* the 8b model is missing and its pull fails, then the listing for 7b fails
C4_Witness ==
    /\ oc.outcome = "raised"
    /\ oc.error = ListingError
    /\ Len(oc.calls) = 3
    /\ oc.calls[2] = Call("pull", Model8b, FALSE, FALSE)
    /\ oc.calls[3] = Call("list", Model7b, FALSE, FALSE)

\* the response with the Markdown fences removed and cut to the span from its
\* first "{" to its last "}", when it has both
OutermostSpan(response) ==
    LET r == SelectSeq(response, LAMBDA t : t \notin {"~~~json", "~~~"})
        opens == { i \in 1..Len(r) : r[i] = "{" }
        closes == { i \in 1..Len(r) : r[i] = "}" }
    IN  IF opens # {} /\ closes # {}
        THEN SubSeq(r, CHOOSE i \in opens : \A j \in opens : i <= j,
                       CHOOSE i \in closes : \A j \in closes : j <= i)
        ELSE r

\* the value is the fixed fallback analysis
IsFixedFallback(value) ==
    /\ "api_type" \in DOMAIN value
    /\ value.api_type = "rest"
    /\ value.main_entities = <<"item">>
    /\ Len(value.endpoints) = 1
    /\ value.endpoints[1].method = "GET"
    /\ value.endpoints[1].path = "/items"
    /\ value.endpoints[1].name = "list_items"
    /\ value.auth_required = FALSE
    /\ value.database_required = TRUE

\* generate was called and returned a response text
GenerateReturned ==
    /\ oc.calls # <<>>
    /\ oc.calls[Len(oc.calls)].op = "generate"
    /\ oc.calls[Len(oc.calls)].ok

C6_UnsetNameFails ==
    (gen_last.op \in {"generate", "ensure_output_dir"} /\ ~gen_last.name_set) =>
        /\ gen_last.outcome = MissingConfiguration
        /\ gen_last.writes = <<>>

\* ensure_output_dir on a FastAPI generator whose project_name was set to ""
C6_Witness ==
    /\ gen.kind = "fastapi"
    /\ gen.handed
    /\ gen_last.op = "ensure_output_dir"
    /\ ~gen_last.name_set
    /\ gen_last.outcome = MissingConfiguration
    /\ fs = {}

\* generate was called with project_name set and no api_spec ever set
UnsetSpecGenerate ==
    gen_last.op = "generate" /\ gen_last.name_set /\ ~gen_last.handed

C8_RenderedModelsNonEmpty ==
    (gen_last.op = "generate" /\ gen_last.outcome = "returned") =>
        gen_last.rendered # <<>>

\* C9: generate does not mutate the ApiSpec it was handed: after generate
\* returns, the spec (its models entry and every model's field list) equals
\* what it was when it was handed over.
C9_HandedSpecUnchanged ==
    (gen_last.op = "generate" /\ gen_last.handed) => gen.api_spec = gen.handed_spec

(***************************************************************************)
(* Properties of MCPIntegration.enhance_spec (SpecMcpEnabled)              *)
(***************************************************************************)
\* C10: when the MCP pass is enabled, enhance_spec returns a new ApiSpec and
\* leaves the ApiSpec passed in unchanged: its endpoints, their parameters and
\* descriptions, its model fields, auth_type and database_required are the
\* same after the call as before.
C10_EnhanceReturnsNewSpec ==
    (mcp_last.called /\ mcp_last.enabled) =>
        /\ mcp_spec.endpoints = mcp_last.input.endpoints
        /\ mcp_spec.models = mcp_last.input.models
        /\ mcp_spec.auth_type = mcp_last.input.auth_type
        /\ mcp_spec.database_required = mcp_last.input.database_required


(***************************************************************************)
(* Properties of the MCP integration as constructed (SpecMcp)              *)
(***************************************************************************)
\* C11: after any sequence of initialize and enhance_spec calls the
\* integration is still disabled (enabled false, capability list empty) and
\* every enhance_spec call has returned its input spec with no field changed.
C11_McpStaysDisabled ==
    /\ mcp.enabled = FALSE
    /\ mcp.capabilities = <<>>
    /\ mcp_last.called =>
          /\ mcp_last.returned = mcp_last.input
          /\ mcp_spec = mcp_last.input

\* enhance_spec has been called, after initialize or not, on a spec that an
\* enabled pass would have changed
C11_Witness ==
    /\ mcp_last.called
    /\ ~mcp_last.enabled
    /\ mcp_last.input.description = {"product", "user"}
    /\ mcp_last.input.auth_type = "None"
    /\ mcp_last.returned.auth_type = "None"


(***************************************************************************)
(* Properties of FastAPIGenerator.generate's writes (SpecGenerators)       *)
(***************************************************************************)
\* the step a written file belongs to: 1 models, 2 routers, 3 main app,
\* 4 requirements, 5 Dockerfile, 6 static assets, 7 back-filled __init__.py
StepRank(path) ==
    CASE path = "app/models/__init__.py" -> 1
      [] path \in {"app/api/v1/__init__.py", "app/api/v1/item.py"} -> 2
      [] path = "app/main.py" -> 3
      [] path = "requirements.txt" -> 4
      [] path = "Dockerfile" -> 5
      [] path = "app/static/style.css" -> 6
      [] OTHER -> 7

FastAPIGenerateEnded == gen.kind = "fastapi" /\ gen_last.op = "generate"

\* C12: within one FastAPIGenerator.generate call files are written in the
\* order models, routers, main app, requirements, Dockerfile, static assets,
\* back-filled __init__.py files: no file of a later step is written before
\* every file of each earlier step has been written.
C12_FixedWriteOrder ==
    FastAPIGenerateEnded =>
        \A i, j \in 1..Len(gen_last.writes) :
            (/\ i < j
             /\ gen_last.writes[i].type = "file"
             /\ gen_last.writes[j].type = "file")
            => StepRank(gen_last.writes[i].path) <= StepRank(gen_last.writes[j].path)

\* a generate that wrote a file in each of the seven steps
C12_Witness ==
    /\ FastAPIGenerateEnded
    /\ gen_last.outcome = "returned"
    /\ { StepRank(gen_last.writes[i].path) :
           i \in { k \in 1..Len(gen_last.writes) : gen_last.writes[k].type = "file" } }
       = 1..7

\* the files the steps before a step write, given the models rendered
EarlierStepFiles(step, rendered) ==
    LET models == {File("app/models/__init__.py")}
        routers == {File("app/api/v1/__init__.py")}
                   \cup (IF rendered # <<>> THEN {File("app/api/v1/item.py")} ELSE {})
    IN  CASE step = "models" -> {}
          [] step = "routers" -> models
          [] step = "main" -> models \cup routers
          [] step = "dockerfile" ->
                models \cup routers \cup {File("app/main.py"), File("requirements.txt")}
          [] OTHER -> {}

\* C13: if a step of generate fails after earlier steps have written files,
\* the failure propagates to the caller and every file the earlier steps wrote
\* remains on disk; nothing is rolled back or deleted.
C13_PartialOutputKept ==
    (gen_last.op = "generate" /\ gen_last.outcome \notin {"returned", MissingConfiguration})
    =>  /\ Range(gen_last.writes) \subseteq fs
        /\ Dir("") \in fs
        /\ (gen.kind = "fastapi" /\ gen_last.outcome = "TemplateError") =>
              /\ gen_last.failed # "none"
              /\ EarlierStepFiles(gen_last.failed, gen_last.rendered) \subseteq fs

\* the Dockerfile template fails on a new directory after four steps wrote
C13_Witness ==
    /\ gen.kind = "fastapi"
    /\ gen_last.op = "generate"
    /\ gen_last.outcome = "TemplateError"
    /\ gen_last.failed = "dockerfile"
    /\ File("requirements.txt") \in fs
    /\ File("Dockerfile") \notin fs


(***************************************************************************)
(* Properties of the command-line front ends (SpecCli)                     *)
(***************************************************************************)
\* C14: for every front-end generation command (the flat generate and the
\* grouped generate server, client and openapi), whenever an exception is
\* caught during generation the command ends with a non-zero exit code.
C14_CaughtExceptionExitsNonZero ==
    (cli.command # "none" /\ cli.caught) => cli.exit_code # 0

\* C15: with --dry-run, generate server, client and openapi create or modify
\* no file and no directory, whether the command succeeds or fails.
C15_DryRunWritesNothing ==
    [][(cli'.command \in {"server", "client", "openapi"} /\ cli'.dry_run)
       => fs' = fs]_vars

\* a dry run that failed, on a disk that holds a generated project
C15_Witness ==
    /\ cli.command = "server"
    /\ cli.dry_run
    /\ cli.caught
    /\ cli.exit_code = 1
    /\ File("app/main.py") \in fs

\* a dry run that succeeded on an empty disk
C15_DryRunSucceeded ==
    /\ cli.command \in {"server", "client", "openapi"}
    /\ cli.dry_run
    /\ ~cli.caught
    /\ fs = {}


(***************************************************************************)
(* Properties of FileManager.batch_process_files (SpecBatch)               *)
(***************************************************************************)
InProgress == { i \in 1..Len(batch.task) : batch.task[i] = "running" }

\* the invocations of processor_func that ended for the i-th file
EndedFor(i) == { k \in 1..Len(batch.log) : batch.log[k].task = i }

\* C16: during batch_process_files at most max_concurrent invocations of fn
\* are in progress at any moment; the call returns one entry per input file,
\* in input order, each being fn's result for that file or the exception it
\* raised; an exception in one invocation is not raised to the caller and
\* does not keep the other files from being processed.
C16_BoundedOrderedBatch ==
    /\ Cardinality(InProgress) <= batch.max_concurrent
    /\ batch.phase \in {"none", "running", "returned"}
    /\ batch.phase = "returned" =>
          /\ Len(batch.returned) = Len(batch.files)
          /\ \A i \in 1..Len(batch.files) :
                /\ Cardinality(EndedFor(i)) = 1
                /\ \A k \in EndedFor(i) :
                      /\ batch.log[k].file = batch.files[i]
                      /\ batch.returned[i].file = batch.files[i]
                      /\ batch.returned[i].raised = batch.log[k].raised

\* three files, two at a time, the second file's invocation raised and ended
\* first, and the call returned
C16_Witness ==
    /\ batch.phase = "returned"
    /\ batch.files = <<"a.py", "b.py", "a.py">>
    /\ batch.max_concurrent = 2
    /\ batch.log[1].task = 2
    /\ batch.returned[2].raised
    /\ ~batch.returned[1].raised
    /\ ~batch.returned[3].raised

\* two invocations were in progress at once
C16_TwoInProgress == Cardinality(InProgress) = 2


(***************************************************************************)
(* Properties of FileManager.sync_directories (SpecSync)                   *)
(***************************************************************************)
SyncReturnedClean ==
    fm_last.op = "sync_directories" /\ fm_last.result.errors = <<>>

TargetBefore == FilesUnder(fm_last.before, "target")
TargetAfter == FilesUnder(disk, "target")

\* C17: after sync_directories returns with an empty errors list, every
\* source file matching no exclude pattern is in target at the same relative
\* path, no file is left in target whose relative path is not in source, and
\* the copied, updated and deleted lists are exactly the relative paths the
\* call created, overwrote (the source being newer) and removed.
C17_SyncResult ==
    SyncReturnedClean =>
        /\ \A rel \in FilesUnder(disk, "source") :
              (\A i \in 1..Len(fm_last.exclude) : ~PathMatch(rel, fm_last.exclude[i]))
              => rel \in TargetAfter
        /\ TargetAfter \subseteq FilesUnder(disk, "source")
        /\ fm_last.result.copied = TargetAfter \ TargetBefore
        /\ fm_last.result.deleted = TargetBefore \ TargetAfter
        /\ fm_last.result.updated =
              { rel \in TargetBefore \cap TargetAfter :
                  disk[<<"target", rel>>] # fm_last.before[<<"target", rel>>] }
        /\ \A rel \in fm_last.result.updated :
              /\ disk[<<"target", rel>>] = disk[<<"source", rel>>]
              /\ fm_last.before[<<"source", rel>>].mtime
                    > fm_last.before[<<"target", rel>>].mtime
        /\ \A path \in DOMAIN fm_last.before :
              path[1] = "source" => (path \in DOMAIN disk /\ disk[path] = fm_last.before[path])

\* a call that copied one file, updated another, removed an orphan and left
\* a target file of the same age alone
C17_Witness ==
    /\ SyncReturnedClean
    /\ fm_last.exclude = <<"sub/*">>
    /\ fm_last.result.copied = {"a.py"}
    /\ fm_last.result.updated = {}
    /\ fm_last.result.deleted = {"b.pyc"}
    /\ <<"source", "sub/c.py">> \in DOMAIN disk
    /\ <<"target", "sub/c.py">> \notin DOMAIN disk

\* a call that overwrote a target file older than its source
C17_Updated ==
    /\ SyncReturnedClean
    /\ fm_last.result.updated = {"a.py"}
    /\ fm_last.before[<<"target", "a.py">>].content = "old"
    /\ disk[<<"target", "a.py">>].content = "new"

\* C26: sync_directories deletes a target file only if the source directory
\* exists and has no file at that path; when the source directory does not
\* exist the call deletes nothing.
C26_DeletesOnlyOrphans ==
    fm_last.op = "sync_directories" =>
        \A rel \in SyncPaths :
            (<<"target", rel>> \in DOMAIN fm_last.before /\ <<"target", rel>> \notin DOMAIN disk)
            => /\ fm_last.source_exists
               /\ <<"source", rel>> \notin DOMAIN fm_last.before

\* with the source directory in place, only files without a source file go
C26_WhenSourceExists ==
    (fm_last.op = "sync_directories" /\ fm_last.source_exists) =>
        \A rel \in SyncPaths :
            (<<"target", rel>> \in DOMAIN fm_last.before /\ <<"target", rel>> \notin DOMAIN disk)
            => <<"source", rel>> \notin DOMAIN fm_last.before

(***************************************************************************)
(* Properties of FileManager.backup_file and restore_backup (SpecBackup)   *)
(***************************************************************************)
\* C18: for every existing file, backup_file (default suffix), then any
\* modification of the file, then restore_backup on the returned backup path
\* leaves the file with exactly the content it had when backup_file was
\* called, and the backup file no longer exists.
C18_BackupRestores ==
    (fm_last.op = "restore_backup" /\ fm_last.existed) =>
        /\ fm_last.returned = fm_last.path
        /\ fm_last.path \in DOMAIN disk
        /\ disk[fm_last.path] = fm_last.saved
        /\ fm_last.backup_path \notin DOMAIN disk

\* a.tar.gz backed up, then removed, then restored
C18_Witness ==
    /\ fm_last.op = "restore_backup"
    /\ fm_last.existed
    /\ fm_last.path = <<"a", "tar", "gz">>
    /\ fm_last.backup_path = <<"a", "tar", "gz", "backup">>
    /\ fm_last.modified = "removed"
    /\ fm_last.saved = "v2"

\* a file without a suffix, given new content, restored
C18_NoSuffixRestored ==
    /\ fm_last.op = "restore_backup"
    /\ fm_last.existed
    /\ fm_last.path = <<".env">>
    /\ fm_last.modified = "v3"
    /\ disk[<<".env">>] = "v1"

\* C30: for every backup_suffix passed to backup_file, restore_backup on the
\* returned path restores the file to the content it had when it was backed
\* up and deletes the backup (SpecBackupSuffix).
C30_AnySuffixRestores ==
    (fm_last.op = "restore_backup" /\ fm_last.existed) =>
        /\ ~fm_last.raised
        /\ fm_last.path \in DOMAIN disk
        /\ disk[fm_last.path] = fm_last.saved
        /\ fm_last.backup_path \notin DOMAIN disk

(***************************************************************************)
(* Properties of FileManager.create_archive and extract_archive            *)
(* (SpecArchive)                                                           *)
(***************************************************************************)
\* the archive was given the file name that goes with its format
ConventionalName ==
    fm_last.archive_name =
        CASE fm_last.format = "zip" -> <<"proj", "zip">>
          [] fm_last.format = "tar" -> <<"proj", "tar">>
          [] fm_last.format = "tar.gz" -> <<"proj", "tar", "gz">>
          [] fm_last.format = "tgz" -> <<"proj", "tgz">>
          [] OTHER -> <<>>

Extracted == fm_last.op = "extract_archive" /\ ConventionalName

\* every file of the archived directory is below dir, with the same content
ReproducedBelow(dir) ==
    \A rel \in FilesBelow(disk, <<"proj">>) :
        /\ dir \o rel \in DOMAIN disk
        /\ disk[dir \o rel] = disk[<<"proj">> \o rel]

C19_ZipExtracted ==
    /\ Extracted
    /\ fm_last.format = "zip"
    /\ FilesBelow(disk, <<"proj">>) = ArchivedPaths
    /\ <<"out", "sub", "file3.txt">> \in DOMAIN disk


(***************************************************************************)
(* Properties of FileManager.write_file, read_file, write_json and         *)
(* read_json (SpecFileIO)                                                  *)
(***************************************************************************)
\* C20: for arbitrary text content, the empty text and any line-ending
\* characters included, write_file then read_file on the same path returns
\* exactly the original content; likewise write_json then read_json returns
\* data equal to the original.
C20_RoundTrip ==
    fm_last.op \in {"read_file", "read_json"} => fm_last.returned = fm_last.written

\* write_json then read_json alone returns the original data
C20_JsonRoundTrip ==
    fm_last.op = "read_json" => fm_last.returned = fm_last.written

\* a JSON value holding a carriage return and a line feed came back
C20_JsonWitness ==
    /\ fm_last.op = "read_json"
    /\ fm_last.written = <<"a", "CR", "LF">>
    /\ fm_last.platform = "nt"


(***************************************************************************)
(* Properties of OllamaClient.generate_stream (SpecStream)                 *)
(***************************************************************************)
\* the position of the first line marked done among the first n lines, or n
RECURSIVE UpToDone(_, _)
UpToDone(lines, n) ==
    IF n = 0 THEN 0
    ELSE LET before == UpToDone(lines, n - 1)
         IN  IF before < n - 1 THEN before
             ELSE IF before > 0 /\ lines[before].kind = "object" /\ lines[before].done
                  THEN before
             ELSE n

\* the response values of the JSON lines among the first n lines
RECURSIVE ResponseValues(_, _)
ResponseValues(lines, n) ==
    IF n = 0 THEN <<>>
    ELSE ResponseValues(lines, n - 1)
         \o (IF lines[n].kind = "object" /\ lines[n].has_response
             THEN <<lines[n].response>> ELSE <<>>)

\* C21: generate_stream yields exactly the response values of the well-formed
\* lines received, in the order received, up to and including the first line
\* marked done; a line that is not JSON is skipped without ending the stream,
\* and nothing is yielded after the done line.
C21_StreamYields ==
    /\ stream.phase # "none" =>
          stream.yielded = ResponseValues(stream.lines, UpToDone(stream.lines, stream.read))
    /\ stream.phase = "ended" =>
          stream.yielded = ResponseValues(stream.lines,
                                          UpToDone(stream.lines, Len(stream.lines)))

\* a stream of a malformed line, a done line with a response, and one more
\* line with a response: the second line's value was yielded and nothing else
C21_Witness ==
    /\ stream.phase = "ended"
    /\ stream.lines = <<MalformedLine, ObjectLine(TRUE, "x", TRUE), ObjectLine(TRUE, "y", FALSE)>>
    /\ stream.yielded = <<"x">>

\* a malformed line between two lines with a response: both values yielded
C21_MalformedSkipped ==
    /\ stream.phase = "ended"
    /\ stream.lines = <<ObjectLine(TRUE, "x", FALSE), MalformedLine, ObjectLine(TRUE, "y", FALSE)>>
    /\ stream.yielded = <<"x", "y">>


(***************************************************************************)
(* Properties of the generated gRPC server (SpecGrpc)                      *)
(***************************************************************************)
\* C22: the ids Create assigns increase over the whole run: after any
\* sequence of Create, Update and Delete calls (one at a time), a new Create
\* receives an id greater than every id assigned before it, so it never
\* replaces a record that is still stored.
C22_IdsIncrease ==
    ~grpc.overlapped =>
        \A i, j \in 1..Len(grpc.created) :
            i < j => /\ grpc.created[i].id < grpc.created[j].id
                     /\ ~grpc.created[j].replaced

\* C27: two Create calls that run at the same time are assigned different
\* ids and both records end up stored; no interleaving of Create calls
\* loses a created record.
C27_ConcurrentCreatesKept ==
    (grpc.removed = 0) =>
        /\ \A i, j \in 1..Len(grpc.created) :
              i # j => grpc.created[i].id # grpc.created[j].id
        /\ Cardinality(DOMAIN grpc.db) = Len(grpc.created)

\* C28: a record created through one model's Create is never returned,
\* changed or removed through another model's Get, List, Update or Delete.
C28_ModelsIsolated ==
    grpc.last.op \in {"Get", "List", "Update", "Delete"} =>
        grpc.last.touched \subseteq {grpc.last.model}


(***************************************************************************)
(* Properties of the pattern analysis (SpecPatterns, SpecCrud, SpecAnalyzer)*)
(***************************************************************************)
SpecificTypes == {"graphql", "grpc", "websocket", "cli"}

\* the description holds a keyword of the API type
HasKeyword(text, api_name) == \E k \in 1..Len(text) : ApiTypeMatch(api_name, text[k])

\* C23: a description that holds a keyword of a specific API type (graphql,
\* grpc, websocket, cli) and of no other specific type is classified as that
\* type, also when it holds the generic word "api"; a description that holds
\* REST/HTTP keywords alone is classified as rest.
C23_SpecificTypeWins ==
    pat.called =>
        /\ \A t \in SpecificTypes :
              ( /\ HasKeyword(pat.text, t)
                /\ \A u \in SpecificTypes \ {t} : ~HasKeyword(pat.text, u) )
              => pat.result.api_type = t
        /\ ( /\ HasKeyword(pat.text, "rest")
             /\ \A u \in SpecificTypes : ~HasKeyword(pat.text, u) )
           => pat.result.api_type = "rest"

\* a specific type's keyword without the word "api" or "http" is classified
\* as that type
C23_WithoutGenericWord ==
    pat.called =>
        \A t \in SpecificTypes :
            ( /\ HasKeyword(pat.text, t)
              /\ ~HasKeyword(pat.text, "rest")
              /\ \A u \in SpecificTypes \ {t} : ~HasKeyword(pat.text, u) )
            => pat.result.api_type = t

\* the singular form of the claim: one trailing "s" stripped
StripOneS(w) == IF w.s = 0 THEN w ELSE [w EXCEPT !.s = @ - 1]

EndpointNames(endpoints) == { endpoints[i].name : i \in 1..Len(endpoints) }

\* the names the claim expects for an entity and the operations present
ExpectedNames(e, crud_ops) ==
    LET s == Render(StripOneS(e))
        has(op) == op \in Range(crud_ops)
    IN  (IF has("create") THEN {"create_" \o s} ELSE {})
        \cup (IF has("read") THEN {"list_" \o Render(e), "get_" \o s} ELSE {})
        \cup (IF has("update") THEN {"update_" \o s} ELSE {})
        \cup (IF has("delete") THEN {"delete_" \o s} ELSE {})

\* C24: for every non-empty entity list and every set of CRUD operations
\* the endpoints number at least one per (entity, operation) pair, and for
\* an entity e with singular s (one trailing "s" stripped) the names include
\* create_s, list_e, get_s, update_s and delete_s for the operations present.
C24_CrudEndpointNames ==
    (crud.called /\ crud.entities # <<>>) =>
        /\ Len(crud.endpoints) >= Len(crud.entities) * Len(crud.crud_ops)
        /\ \A e \in Range(crud.entities) :
              ExpectedNames(e, crud.crud_ops) \subseteq EndpointNames(crud.endpoints)

\* the count of C24 alone, and the names for entities that end in at most one "s"
C24_CountAndSimpleNames ==
    (crud.called /\ crud.entities # <<>>) =>
        /\ Len(crud.endpoints) >= Len(crud.entities) * Len(crud.crud_ops)
        /\ \A e \in Range(crud.entities) :
              e.s <= 1 => ExpectedNames(e, crud.crud_ops) \subseteq EndpointNames(crud.endpoints)

\* C29: the models of every ApiSpec analyze_text returns have distinct names.
C29_ModelNamesDistinct ==
    an_result.outcome = "returned" =>
        \A i, j \in 1..Len(an_result.spec.models) :
            i # j => an_result.spec.models[i].name # an_result.spec.models[j].name


(***************************************************************************)
(* Properties of generate_docker_compose (SpecCompose)                     *)
(***************************************************************************)
\* the document has a service named db that uses the image postgres:15
HasPostgresDb(doc) == DbKey \in DOMAIN doc.services /\ doc.services[DbKey].image = "postgres:15"

\* C25: for every input spec the output of generate_docker_compose holds a
\* service named db with the image postgres:15 if and only if
\* database_required is true on the spec.
C25_DbIffDatabaseRequired ==
    compose.called => (HasPostgresDb(compose.output) <=> compose.api_spec.database_required)

\* a spec named "db" that needs a database and mentions a cache
C25_Witness ==
    /\ compose.called
    /\ compose.api_spec.name = DbKey
    /\ compose.api_spec.database_required
    /\ "cache" \in compose.api_spec.description
    /\ HasPostgresDb(compose.output)

\* a spec named "db" that needs no database: a service db without postgres
C25_WitnessNoDatabase ==
    /\ compose.called
    /\ compose.api_spec.name = DbKey
    /\ ~compose.api_spec.database_required
    /\ DbKey \in DOMAIN compose.output.services
    /\ ~HasPostgresDb(compose.output)

====
